---- MODULE Spec2Model ----
(***************************************************************************)
(* Real-time event relay of vedran77/pulse: the WebSocket Hub              *)
(* (backend/internal/transport/ws/hub.go, multi-tab version), the Client   *)
(* read/write pumps, the connection acceptor (handler.go) and the          *)
(* HubNotifier adapter (notifier.go).                                      *)
(*                                                                         *)
(* Every case of Hub.Run's select is one atomic action: the control loop   *)
(* is a single goroutine and handles one command at a time.  The unbuffered*)
(* register / unregister channels are modelled as a rendezvous between the *)
(* blocked sender (acceptor, ReadPump's deferred function) and the Hub.    *)
(* Hub.BroadcastToUser runs in its caller's goroutine, one step per map     *)
(* lookup and per send, interleaved with the control loop.                 *)
(*                                                                         *)
(* The frontend client (class PulseWebSocket) is a second state machine:   *)
(* its methods and the handlers of its sockets are one action each, as     *)
(* JavaScript runs each of them to completion; the server end of a socket  *)
(* is reduced to the subscription set its frames build.                    *)
(***************************************************************************)
EXTENDS Integers, Sequences, FiniteSets, TLC

\* ---------------------------------------------------------------- bounds
\* capacity of Client.send; the source uses 256, the model a small capacity
sendBufSize == 2
\* capacity of Hub.broadcast; the source uses 256, the model a small capacity
broadcastBufSize == 1

\* connections that may be accepted, and the user each one authenticates as:
\* user "B" has two tabs (1 and 3), user "A" has one (2)
Conns == {1, 2, 3}
Users == {"A", "B"}
userID(c) == IF c = 2 THEN "A" ELSE "B"
\* the users whose messages the business services report (domain.Message.SenderID)
Senders == {"A"}

\* chat-channel and DM-conversation identifiers (both are broadcast scopes)
ChannelIDs == {"general"}
ConversationIDs == {"dm"}
Scopes == ChannelIDs \cup ConversationIDs

Nil == "nil"

\* The environment of one run: the connections that may still be accepted and
\* how many events of each class may still happen.
\*   sub    channel.subscribe / channel.unsubscribe frames
\*   typing typing.start / typing.stop frames carrying a channel id
\*   reply  frames answered directly (ping, unknown type, invalid payload)
\*   notify Notify* calls made by the business services
\*   fail   transport failures (read error or peer close, write error, failed ping)
\*   user   direct calls of Hub.BroadcastToUser
Environment(conns, sub, typing, reply, notify, fail, user) ==
    [conns |-> conns, sub |-> sub, typing |-> typing, reply |-> reply,
     notify |-> notify, fail |-> fail, user |-> user]

\* fan-out: three connections of two users subscribe, type and get notified
FanoutEnv == Environment({1, 2, 3}, 2, 1, 0, 1, 0, 0)
\* overflow: a subscribed connection whose mailbox fills up
OverflowEnv == Environment({2, 3}, 1, 0, 1, 2, 0, 0)
\* drop: an overflowing connection that also fails
DropEnv == Environment({2, 3}, 1, 0, 0, 2, 1, 0)
\* lifecycle: connections come and go
LifecycleEnv == Environment({1, 2, 3}, 0, 0, 0, 0, 2, 0)
\* full on leave: a connection is answered, and one comes and goes
AnsweredEnv == Environment({1, 2, 3}, 0, 0, 1, 0, 1, 0)
\* replies: one connection answers pings and bad frames
ReplyEnv == Environment({3}, 0, 0, 3, 0, 1, 0)
\* direct send: a user-scoped event is sent to a user whose tabs come and go
UserSendEnv == Environment({1, 2, 3}, 0, 0, 0, 0, 1, 1)
\* direct overflow: direct sends fill the mailboxes of a user's two tabs
UserFullEnv == Environment({1, 3}, 0, 0, 0, 0, 0, 3)

\* smaller environments, on which progress is checked
\* one connection subscribes, unsubscribes and types
LiveTypingEnv == Environment({3}, 2, 1, 0, 0, 0, 0)
\* one connection is answered and fails
LiveReplyEnv == Environment({3}, 0, 0, 2, 0, 1, 0)
\* one subscribed connection whose mailbox is filled by direct sends while
\* two notifications arrive
LiveOverflowEnv == Environment({3}, 1, 0, 0, 2, 0, sendBufSize)
\* one subscribed connection whose mailbox is filled by direct sends, is
\* notified and fails
LiveDropEnv == Environment({3}, 1, 0, 0, 1, 1, sendBufSize)
LiveEnvironments == {LiveTypingEnv, LiveReplyEnv, LiveOverflowEnv, LiveDropEnv}
\* the connections accepted in those environments
LiveConns == UNION {e.conns : e \in LiveEnvironments}

\* order: two subscribed connections of two users get two notifications
OrderEnv == Environment({2, 3}, 2, 0, 0, 2, 0, 0)
Environments == {FanoutEnv, OverflowEnv, DropEnv, LifecycleEnv, AnsweredEnv, ReplyEnv,
                 UserSendEnv, UserFullEnv, OrderEnv}

\* ---------------------------------------------------------------- events
EventTypeMessageSend == "message.send"
EventTypeTypingStart == "typing.start"
EventTypeTypingStop == "typing.stop"
EventTypeChannelSubscribe == "channel.subscribe"
EventTypeChannelUnsubscribe == "channel.unsubscribe"
EventTypePing == "ping"
EventTypeTyping == "typing"
EventTypePresence == "presence"
EventTypePong == "pong"
EventTypeError == "error"
EventTypeMessageNew == "message.new"
EventTypeMessageEdited == "message.edited"
EventTypeMessageDeleted == "message.deleted"
EventTypeDMNew == "dm.new"
EventTypeDMEdited == "dm.edited"
EventTypeDMDeleted == "dm.deleted"

\* the payload structs, as one record shape: the user a payload names, its
\* status or error code, its error message and the id of the record it carries
Payload(user, arg, message, id) == [user |-> user, arg |-> arg, message |-> message, id |-> id]
PresencePayload(uid, status) == Payload(uid, status, "", 0)
TypingPayload(uid) == Payload(uid, "", "", 0)
ErrorPayload(code, message) == Payload(Nil, code, message, 0)
MessagePayload(sender, id) == Payload(sender, "", "", id)
NoPayload == Payload(Nil, "", "", 0)

\* NewEvent + json.Marshal: the serialized envelope
NewEvent(eventType, channelID, payload) ==
    [type |-> eventType, channel |-> channelID, payload |-> payload]

VARIABLES
    clients,             \* Hub.clients: userID -> set of clients (the map's keys are its DOMAIN)
    broadcast,           \* Hub.broadcast: buffered channel of broadcastMsg
    send,                \* Client.send: buffered items of each mailbox
    sendClosed,          \* Client.send has been closed
    doneClosed,          \* Client.done has been closed
    subscribedChannels,  \* Client.subscribedChannels
    connClosed,          \* Client.conn has been closed by one of the pumps
    acceptor,            \* ServeWS for each connection: "new", "registering", "started"
    reader,              \* ReadPump: "none", "run", "unregistering", "exited"
    writer,              \* WritePump: "none", "run", "exited"
    enq,                 \* history: every envelope that entered each mailbox, in order
    written,             \* history: every envelope written to each socket, in order
    presence,            \* history: broadcastPresence calls, <<userID, status>>
    nextID,              \* number of Notify* calls made so far
    event,               \* ReadPump: the type of the last event wsjson.Read returned
    env,                 \* what the environment may still do (an Environment record)
    userSend,            \* the Hub.BroadcastToUser call in progress, if any (a sequence of
                         \* at most one record: its arguments and the position of its loop)
    mu,                  \* Client.mu: the state of each connection's sync.RWMutex
    ranging,             \* Hub.Run inside its broadcast case (a sequence of at most one
                         \* record: the message and the position of the range)
    subscribing,         \* ReadPump inside Client.Subscribe / Unsubscribe (per connection
                         \* a sequence of at most one record: the call and its position)
    pulseWS,             \* frontend: the fields of the PulseWebSocket singleton
    sockets,             \* frontend: the WebSocket objects it has created (readyState,
                         \* frames sent and not yet read by the server)
    panicked             \* a goroutine panicked (send on / close of a closed channel)

vars == <<clients, broadcast, send, sendClosed, doneClosed, subscribedChannels,
          connClosed, acceptor, reader, writer, enq, written, presence,
          nextID, event, env, userSend, mu, ranging, subscribing,
          pulseWS, sockets, panicked>>

\* ------------------------------------------------------ frontend client
\* frames a WebSocket object may hold sent and not yet read by the server
maxFrames == 2

\* const MAX_RECONNECT_DELAY
MAX_RECONNECT_DELAY == 30000

\* private reconnectDelay = 1000 (and the reset in onopen)
InitialReconnectDelay == 1000

\* the WebSocket objects the client may have alive at a time (a closed one is
\* garbage, and its place is taken by the next one created); the server end
\* of socket s is the backend connection s
Sockets == {1, 2}

\* a WebSocket object not created yet.  readyState is "NONE" (not created),
\* "CONNECTING", "OPEN", "CLOSING" or "CLOSED"; fresh is history: onopen has
\* run and the client's subscription set has not been written since
NoSocket == [readyState |-> "NONE", frames |-> <<>>, fresh |-> FALSE]

\* the field initialisers of class PulseWebSocket (ws: a sequence of at most one
\* socket; reconnectTimer: a sequence of at most one timer handle, given by
\* the delay of the timer), and pending: the number of timers the browser
\* holds for the object (set by setTimeout, neither fired nor cleared)
NewPulseWebSocket ==
    [ws |-> <<>>, reconnectDelay |-> InitialReconnectDelay, reconnectTimer |-> <<>>,
     shouldReconnect |-> TRUE, subscribedChannels |-> {}, pending |-> 0]

\* the zero value of sync.RWMutex: no reader and no writer holds it
Unlocked == [readers |-> 0, writer |-> FALSE]

\* NewHub / state before any connection is accepted, in one of the environments E
Start(E) ==
    /\ clients = [u \in {} |-> {}]
    /\ broadcast = <<>>
    /\ send = [c \in Conns |-> <<>>]
    /\ sendClosed = [c \in Conns |-> FALSE]
    /\ doneClosed = [c \in Conns |-> FALSE]
    /\ subscribedChannels = [c \in Conns |-> {}]
    /\ connClosed = [c \in Conns |-> FALSE]
    /\ acceptor = [c \in Conns |-> "new"]
    /\ reader = [c \in Conns |-> "none"]
    /\ writer = [c \in Conns |-> "none"]
    /\ enq = [c \in Conns |-> <<>>]
    /\ written = [c \in Conns |-> <<>>]
    /\ presence = <<>>
    /\ nextID = 0
    /\ event = [c \in Conns |-> Nil]
    /\ env \in E
    /\ userSend = <<>>
    /\ mu = [c \in Conns |-> Unlocked]
    /\ ranging = <<>>
    /\ subscribing = [c \in Conns |-> <<>>]
    /\ pulseWS = NewPulseWebSocket
    /\ sockets = [s \in Sockets |-> NoSocket]
    /\ panicked = FALSE

Init == Start(Environments)

\* no backend event of its own: the server end is driven by the frames of
\* the frontend client only
ClientEnv == Environment({}, 0, 0, 0, 0, 0, 0)

\* the page has loaded: the singleton `pulseWS = new PulseWebSocket()`
ClientInit == Start({ClientEnv})

\* the initial states of the runs on which progress is checked
LiveInit == Start(LiveEnvironments)

\* ------------------------------------------------------------- helpers
\* the state the Hub's control loop reads and writes, as one record
HubState ==
    [clients |-> clients, send |-> send, enq |-> enq, sendClosed |-> sendClosed,
     doneClosed |-> doneClosed, presence |-> presence, panicked |-> panicked]

\* the control loop's step leaves the Hub state h.  A write to the map
\* while BroadcastToUser reads it from its caller's goroutine is a data race.
HubBecomes(h) ==
    /\ userSend' = IF userSend # <<>> /\ h.clients # clients
                       THEN <<[userSend[1] EXCEPT !.raced = TRUE]>>
                       ELSE userSend
    /\ clients' = h.clients
    /\ send' = h.send
    /\ enq' = h.enq
    /\ sendClosed' = h.sendClosed
    /\ doneClosed' = h.doneClosed
    /\ presence' = h.presence
    /\ panicked' = h.panicked

\* mutant: one connection per user, as in the single-tab Hub
AllClientsOnePerUser(m) == {CHOOSE c \in m[u] : TRUE : u \in {v \in DOMAIN m : m[v] # {}}}

\* the connections in the membership map m
AllClients(m) == UNION {m[u] : u \in DOMAIN m}

\* the connections registered in the Hub
Registered == AllClients(clients)

\* mutant: every connection counts as subscribed to every scope
IsSubscribedAlways(c, channelID) == TRUE

\* Client.IsSubscribed
IsSubscribed(c, channelID) == channelID \in subscribedChannels[c]

\* mutant: the mailbox counts as full one item early
HasRoomOffByOne(q) == Len(q) < sendBufSize - 1

\* select { case client.send <- data: default: } takes the send case on mailbox q
HasRoom(q) == Len(q) < sendBufSize

\* mutant: the mailbox is a stack, the newest item is put in front
TrySendFront(h, T, data) ==
    [h EXCEPT
       !.send = [c \in Conns |-> IF c \in T /\ HasRoom(h.send[c])
                                    THEN <<data>> \o h.send[c] ELSE h.send[c]],
       !.enq = [c \in Conns |-> IF c \in T /\ HasRoom(h.send[c])
                                   THEN <<data>> \o h.enq[c] ELSE h.enq[c]],
       !.panicked = @ \/ (\E c \in T : h.sendClosed[c])]

\* one non-blocking send of data to each connection in T; a send on a closed
\* mailbox panics
TrySend(h, T, data) ==
    [h EXCEPT
       !.send = [c \in Conns |-> IF c \in T /\ HasRoom(h.send[c])
                                    THEN Append(h.send[c], data) ELSE h.send[c]],
       !.enq = [c \in Conns |-> IF c \in T /\ HasRoom(h.send[c])
                                   THEN Append(h.enq[c], data) ELSE h.enq[c]],
       !.panicked = @ \/ (\E c \in T : h.sendClosed[c])]

\* mutant: a recipient whose mailbox is full is dropped, as in the broadcast case
broadcastPresenceDropsFull(h, uid, status) ==
    LET T == AllClients([u \in DOMAIN h.clients \ {uid} |-> h.clients[u]])
        full == {c \in T : ~HasRoom(h.send[c])}
        h1 == TrySend(h, T, NewEvent(EventTypePresence, Nil, PresencePayload(uid, status)))
    IN [h1 EXCEPT
          !.clients = [u \in DOMAIN h.clients |-> h.clients[u] \ full],
          !.sendClosed = [c \in Conns |-> h.sendClosed[c] \/ c \in full],
          !.doneClosed = [c \in Conns |-> h.doneClosed[c] \/ c \in full],
          !.presence = Append(@, <<uid, status>>)]

\* Hub.broadcastPresence
broadcastPresence(h, uid, status) ==
    [TrySend(h, AllClients([u \in DOMAIN h.clients \ {uid} |-> h.clients[u]]),
             NewEvent(EventTypePresence, Nil, PresencePayload(uid, status)))
       EXCEPT !.presence = Append(@, <<uid, status>>)]

\* mutant: every registration counts as the user's first
wasEmptyAlways(set) == TRUE

\* register case: wasEmpty := len(h.clients[client.userID]) == 0
wasEmpty(set) == Cardinality(set) = 0

\* Hub.Run, case client := <-h.register
registerCase(h, c) ==
    LET uid == userID(c)
        old == IF uid \in DOMAIN h.clients THEN h.clients[uid] ELSE {}
        h1 == [h EXCEPT !.clients = [u \in DOMAIN h.clients \cup {uid} |->
                                        IF u = uid THEN old \cup {c} ELSE h.clients[u]]]
    IN IF wasEmpty(old) THEN broadcastPresence(h1, uid, "online") ELSE h1

\* mutant: only the user is looked up, as in the single-tab Hub
existsByUser(m, c) == userID(c) \in DOMAIN m

\* unregister case: the two lookups, h.clients[client.userID] and set[client]
exists(m, c) == userID(c) \in DOMAIN m /\ c \in m[userID(c)]

\* mutant: every removal counts as the user's last
isLastAlways(set) == TRUE

\* unregister case: len(set) == 0 after the delete
isLast(set) == Cardinality(set) = 0

\* mutant: the unregister case closes nothing
closeClientNot(h, c) == h

\* close(client.send); close(client.done) - closing a closed channel panics
closeClient(h, c) ==
    [h EXCEPT !.sendClosed[c] = TRUE,
              !.doneClosed[c] = TRUE,
              !.panicked = @ \/ h.sendClosed[c] \/ h.doneClosed[c]]

\* Hub.Run, case client := <-h.unregister
unregisterCase(h, c) ==
    IF exists(h.clients, c)
       THEN LET uid == userID(c)
                set == h.clients[uid] \ {c}
                h1 == closeClient([h EXCEPT !.clients[uid] = set], c)
            IN IF isLast(set)
                  THEN broadcastPresence(
                           [h1 EXCEPT !.clients = [u \in DOMAIN h.clients \ {uid} |-> h.clients[u]]],
                           uid, "offline")
                  ELSE h1
       ELSE h

\* mutant: the excluded user is not skipped
excludedNever(msg, uid) == FALSE

\* broadcast case: msg.excludeID != nil && userID == *msg.excludeID
excluded(msg, uid) == msg.excludeID # Nil /\ uid = msg.excludeID

\* mutant: the fan-out also reaches the connections that were removed
targetsWithRemoved(h, msg) ==
    {c \in Conns : /\ (c \in AllClients(h.clients) \/ h.sendClosed[c])
                    /\ ~excluded(msg, userID(c))
                    /\ IsSubscribed(c, msg.channelID)}

\* broadcast case: the connections the loops reach and try to send to
targets(h, msg) ==
    {c \in AllClients(h.clients) : ~excluded(msg, userID(c)) /\ IsSubscribed(c, msg.channelID)}

\* mutant: the fan-out stops at a full mailbox: once a target has been
\* dropped, no other target is sent to
broadcastCaseAbort(h, msg) ==
    LET T == targets(h, msg)
        full == {c \in T : ~HasRoom(h.send[c])}
        h1 == IF full = {} THEN TrySend(h, T, msg.data) ELSE h
    IN [h1 EXCEPT
          !.clients = [u \in DOMAIN h.clients |-> h.clients[u] \ full],
          !.sendClosed = [c \in Conns |-> h.sendClosed[c] \/ c \in full],
          !.doneClosed = [c \in Conns |-> h.doneClosed[c] \/ c \in full],
          !.panicked = @ \/ (\E c \in full : h.doneClosed[c])]

\* Hub.Run, case msg := <-h.broadcast.  The connections are independent of
\* each other, so the order of the map iteration does not matter.
broadcastCase(h, msg) ==
    LET T == targets(h, msg)
        full == {c \in T : ~HasRoom(h.send[c])}
        h1 == TrySend(h, T, msg.data)
    IN \* buffer full: delete(set, client); close(client.send); close(client.done)
       [h1 EXCEPT
          !.clients = [u \in DOMAIN h.clients |-> h.clients[u] \ full],
          !.sendClosed = [c \in Conns |-> h.sendClosed[c] \/ c \in full],
          !.doneClosed = [c \in Conns |-> h.doneClosed[c] \/ c \in full],
          !.panicked = @ \/ (\E c \in full : h.doneClosed[c])]

\* ------------------------------------------------------------ acceptor
\* mutant: ServeWS starts both pumps before it sends the client to the Hub
ServeWSPumpsFirst(c) ==
    /\ ~panicked
    /\ acceptor[c] = "new"
    /\ c \in env.conns
    /\ env' = [env EXCEPT !.conns = @ \ {c}]
    /\ acceptor' = [acceptor EXCEPT ![c] = "registering"]
    /\ reader' = [reader EXCEPT ![c] = "run"]
    /\ writer' = [writer EXCEPT ![c] = "run"]
    /\ UNCHANGED <<pulseWS, sockets, mu, ranging, subscribing, userSend, event, clients, broadcast, send, sendClosed, doneClosed,
                   subscribedChannels, connClosed, enq, written, presence, nextID, panicked>>

\* ServeWS up to `hub.register <- client`: NewClient, then block on the Hub
ServeWS(c) ==
    /\ ~panicked
    /\ acceptor[c] = "new"
    /\ c \in env.conns
    /\ env' = [env EXCEPT !.conns = @ \ {c}]
    /\ acceptor' = [acceptor EXCEPT ![c] = "registering"]
    /\ UNCHANGED <<pulseWS, sockets, mu, ranging, subscribing, userSend, event, clients, broadcast, send, sendClosed, doneClosed, subscribedChannels,
                   connClosed, reader, writer, enq, written, presence, nextID, panicked>>

\* ----------------------------------------------------------------- Hub
\* the Hub receives from h.register; ServeWS then starts both pumps
HubRegister(c) ==
    /\ ~panicked
    /\ acceptor[c] = "registering"
    /\ HubBecomes(registerCase(HubState, c))
    /\ acceptor' = [acceptor EXCEPT ![c] = "started"]
    /\ reader' = [reader EXCEPT ![c] = "run"]
    /\ writer' = [writer EXCEPT ![c] = "run"]
    /\ UNCHANGED <<pulseWS, sockets, mu, ranging, subscribing, event, env, broadcast, subscribedChannels, connClosed, written, nextID>>

\* the Hub receives from h.unregister; ReadPump's deferred function then
\* closes the socket and the reader goroutine ends
HubUnregister(c) ==
    /\ ~panicked
    /\ reader[c] = "unregistering"
    /\ HubBecomes(unregisterCase(HubState, c))
    /\ reader' = [reader EXCEPT ![c] = "exited"]
    /\ connClosed' = [connClosed EXCEPT ![c] = TRUE]
    /\ UNCHANGED <<pulseWS, sockets, mu, ranging, subscribing, event, env, broadcast, subscribedChannels, acceptor, writer, written, nextID>>

\* mutant: the fan-out uses a blocking send, `client.send <- msg.data`, and so
\* waits for room in the mailbox of every target
HubBroadcastBlocking ==
    /\ ~panicked
    /\ broadcast # <<>>
    /\ \A c \in targets(HubState, Head(broadcast)) : HasRoom(send[c])
    /\ HubBecomes(broadcastCase(HubState, Head(broadcast)))
    /\ broadcast' = Tail(broadcast)
    /\ UNCHANGED <<pulseWS, sockets, mu, ranging, subscribing, event, env, subscribedChannels, connClosed, acceptor, reader, writer, written,
                   nextID>>

\* the Hub receives from h.broadcast
HubBroadcast ==
    /\ ~panicked
    /\ broadcast # <<>>
    /\ HubBecomes(broadcastCase(HubState, Head(broadcast)))
    /\ broadcast' = Tail(broadcast)
    /\ UNCHANGED <<pulseWS, sockets, mu, ranging, subscribing, event, env, subscribedChannels, connClosed, acceptor, reader, writer, written,
                   nextID>>

\* Hub.BroadcastToChannel: json.Marshal, then the send into Hub.broadcast
\* (the caller blocks while the buffer is full)
BroadcastToChannel(channelID, data, excludeUserID) ==
    /\ Len(broadcast) < broadcastBufSize
    /\ broadcast' = Append(broadcast,
                           [channelID |-> channelID, data |-> data, excludeID |-> excludeUserID])

\* ------------------------------------------------------------ notifier
\* mutant: the adapter excludes the acting user
notifierExcludeSender(user) == user

\* the excludeUserID argument every HubNotifier method passes
notifierExclude(user) == Nil

\* the HubNotifier methods share one shape: NewEvent, then BroadcastToChannel
Notify(eventType, scope, user) ==
    /\ ~panicked
    /\ env.notify > 0
    /\ env' = [env EXCEPT !.notify = @ - 1]
    /\ nextID' = nextID + 1
    /\ BroadcastToChannel(scope, NewEvent(eventType, scope, MessagePayload(user, nextID + 1)),
                          notifierExclude(user))
    /\ UNCHANGED <<pulseWS, sockets, mu, ranging, subscribing, userSend, event, clients, send, sendClosed, doneClosed, subscribedChannels, connClosed,
                   acceptor, reader, writer, enq, written, presence, panicked>>

NotifyNewMessage == \E ch \in ChannelIDs, sender \in Senders : Notify(EventTypeMessageNew, ch, sender)
NotifyEditedMessage == \E ch \in ChannelIDs, sender \in Senders : Notify(EventTypeMessageEdited, ch, sender)
NotifyDeletedMessage == \E ch \in ChannelIDs : Notify(EventTypeMessageDeleted, ch, Nil)
NotifyNewDM == \E conv \in ConversationIDs, sender \in Senders : Notify(EventTypeDMNew, conv, sender)
NotifyEditedDM == \E conv \in ConversationIDs, sender \in Senders : Notify(EventTypeDMEdited, conv, sender)
NotifyDeletedDM == \E conv \in ConversationIDs : Notify(EventTypeDMDeleted, conv, Nil)

\* ------------------------------------------------------------ ReadPump
\* a reply from the reader goroutine: select { case c.send <- data: default: }
\* (a send on a closed channel panics)
reply(c, data) ==
    IF sendClosed[c]
       THEN /\ panicked' = TRUE
            /\ UNCHANGED <<send, enq>>
       ELSE /\ send' = [send EXCEPT ![c] = IF HasRoom(send[c]) THEN Append(@, data) ELSE @]
            /\ enq' = [enq EXCEPT ![c] = IF HasRoom(send[c]) THEN Append(@, data) ELSE @]
            /\ UNCHANGED panicked

\* Client.sendError
sendError(c, code, message) ==
    reply(c, NewEvent(EventTypeError, Nil, ErrorPayload(code, message)))

\* mutant: the ping is answered like an unknown event
sendPongAsError(c) == sendError(c, "UNKNOWN_EVENT", "unknown event type")

\* Client.sendPong
sendPong(c) == reply(c, NewEvent(EventTypePong, Nil, NoPayload))

\* wsjson.Read returned an event: the guard shared by the handleEvent actions
readsFrame(c, eventType) ==
    /\ ~panicked
    /\ reader[c] = "run"
    /\ ~connClosed[c]
    /\ event' = [event EXCEPT ![c] = eventType]

\* mutant: the subscription is kept per user, every tab of the user gets it
ReadSubscribePerUser(c, channelID) ==
    /\ readsFrame(c, EventTypeChannelSubscribe)
    /\ env.sub > 0
    /\ env' = [env EXCEPT !.sub = @ - 1]
    /\ subscribedChannels' = [d \in Conns |-> IF userID(d) = userID(c)
                                                 THEN subscribedChannels[d] \cup {channelID}
                                                 ELSE subscribedChannels[d]]
    /\ UNCHANGED <<pulseWS, sockets, mu, ranging, subscribing, userSend, clients, broadcast, send, sendClosed,
                   doneClosed, connClosed, acceptor, reader, writer, enq, written, presence,
                   nextID, panicked>>

\* handleEvent, case EventTypeChannelSubscribe with a valid payload
ReadSubscribe(c, channelID) ==
    /\ readsFrame(c, EventTypeChannelSubscribe)
    /\ env.sub > 0
    /\ env' = [env EXCEPT !.sub = @ - 1]
    /\ subscribedChannels' = [subscribedChannels EXCEPT ![c] = @ \cup {channelID}]
    /\ UNCHANGED <<pulseWS, sockets, mu, ranging, subscribing, userSend, clients, broadcast, send, sendClosed, doneClosed, connClosed, acceptor,
                   reader, writer, enq, written, presence, nextID, panicked>>

\* handleEvent, case EventTypeChannelUnsubscribe with a valid payload
ReadUnsubscribe(c, channelID) ==
    /\ readsFrame(c, EventTypeChannelUnsubscribe)
    /\ env.sub > 0
    /\ env' = [env EXCEPT !.sub = @ - 1]
    /\ subscribedChannels' = [subscribedChannels EXCEPT ![c] = @ \ {channelID}]
    /\ UNCHANGED <<pulseWS, sockets, mu, ranging, subscribing, userSend, clients, broadcast, send, sendClosed, doneClosed, connClosed, acceptor,
                   reader, writer, enq, written, presence, nextID, panicked>>

\* handleEvent, subscribe / unsubscribe whose payload does not unmarshal
ReadInvalidPayload(c, eventType) ==
    /\ readsFrame(c, eventType)
    /\ env.reply > 0
    /\ env' = [env EXCEPT !.reply = @ - 1]
    /\ sendError(c, "INVALID_PAYLOAD",
                 IF eventType = EventTypeChannelSubscribe
                    THEN "invalid channel_subscribe payload"
                    ELSE "invalid channel_unsubscribe payload")
    /\ UNCHANGED <<pulseWS, sockets, mu, ranging, subscribing, userSend, clients, broadcast, sendClosed, doneClosed, subscribedChannels, connClosed,
                   acceptor, reader, writer, written, presence, nextID>>

\* mutant: the typing notification excludes nobody
ReadTypingStartEcho(c, channelID) ==
    /\ readsFrame(c, EventTypeTypingStart)
    /\ env.typing > 0
    /\ env' = [env EXCEPT !.typing = @ - 1]
    /\ BroadcastToChannel(channelID, NewEvent(EventTypeTyping, channelID, TypingPayload(userID(c))),
                          Nil)
    /\ UNCHANGED <<pulseWS, sockets, mu, ranging, subscribing, userSend, clients, send, sendClosed, doneClosed, subscribedChannels, connClosed,
                   acceptor, reader, writer, enq, written, presence, nextID, panicked>>

\* handleEvent, case EventTypeTypingStart with a channel id: Hub.HandleTyping
ReadTypingStart(c, channelID) ==
    /\ readsFrame(c, EventTypeTypingStart)
    /\ env.typing > 0
    /\ env' = [env EXCEPT !.typing = @ - 1]
    /\ BroadcastToChannel(channelID, NewEvent(EventTypeTyping, channelID, TypingPayload(userID(c))),
                          userID(c))
    /\ UNCHANGED <<pulseWS, sockets, mu, ranging, subscribing, userSend, clients, send, sendClosed, doneClosed, subscribedChannels, connClosed,
                   acceptor, reader, writer, enq, written, presence, nextID, panicked>>

\* handleEvent, case EventTypeTypingStop with a channel id: HandleTyping returns
ReadTypingStop(c) ==
    /\ readsFrame(c, EventTypeTypingStop)
    /\ env.typing > 0
    /\ env' = [env EXCEPT !.typing = @ - 1]
    /\ UNCHANGED <<pulseWS, sockets, mu, ranging, subscribing, userSend, clients, broadcast, send, sendClosed, doneClosed, subscribedChannels,
                   connClosed, acceptor, reader, writer, enq, written, presence, nextID,
                   panicked>>

\* handleEvent, typing.start / typing.stop without channel_id
ReadTypingNoChannel(c, eventType) ==
    /\ readsFrame(c, eventType)
    /\ env.reply > 0
    /\ env' = [env EXCEPT !.reply = @ - 1]
    /\ sendError(c, "INVALID_PAYLOAD", "channel_id required for typing events")
    /\ UNCHANGED <<pulseWS, sockets, mu, ranging, subscribing, userSend, clients, broadcast, sendClosed, doneClosed, subscribedChannels, connClosed,
                   acceptor, reader, writer, written, presence, nextID>>

\* handleEvent, case EventTypePing
ReadPing(c) ==
    /\ readsFrame(c, EventTypePing)
    /\ env.reply > 0
    /\ env' = [env EXCEPT !.reply = @ - 1]
    /\ sendPong(c)
    /\ UNCHANGED <<pulseWS, sockets, mu, ranging, subscribing, userSend, clients, broadcast, sendClosed, doneClosed, subscribedChannels, connClosed,
                   acceptor, reader, writer, written, presence, nextID>>

\* handleEvent, default case (any other type, message.send included)
ReadUnknown(c) ==
    /\ readsFrame(c, EventTypeMessageSend)
    /\ env.reply > 0
    /\ env' = [env EXCEPT !.reply = @ - 1]
    /\ sendError(c, "UNKNOWN_EVENT", "unknown event type")
    /\ UNCHANGED <<pulseWS, sockets, mu, ranging, subscribing, userSend, clients, broadcast, sendClosed, doneClosed, subscribedChannels, connClosed,
                   acceptor, reader, writer, written, presence, nextID>>

\* wsjson.Read receives a frame that does not decode as an Event (malformed
\* JSON) and returns the decoding error: ReadPump logs it and returns, and its
\* deferred function blocks on hub.unregister
ReadMalformed(c) ==
    /\ ~panicked
    /\ env.reply > 0
    /\ env' = [env EXCEPT !.reply = @ - 1]
    /\ reader[c] = "run"
    /\ ~connClosed[c]
    /\ reader' = [reader EXCEPT ![c] = "unregistering"]
    /\ UNCHANGED <<pulseWS, sockets, mu, ranging, subscribing, userSend, event, clients, broadcast, send, sendClosed, doneClosed,
                   subscribedChannels, connClosed, acceptor, writer, enq, written, presence,
                   nextID, panicked>>

\* wsjson.Read on the socket WritePump's deferred conn.Close has closed: the
\* read fails, ReadPump returns and its deferred function blocks on
\* hub.unregister
ReadClosed(c) ==
    /\ ~panicked
    /\ reader[c] = "run"
    /\ connClosed[c]
    /\ reader' = [reader EXCEPT ![c] = "unregistering"]
    /\ UNCHANGED <<pulseWS, sockets, mu, ranging, subscribing, userSend, event, env, clients, broadcast, send, sendClosed, doneClosed,
                   subscribedChannels, connClosed, acceptor, writer, enq, written, presence,
                   nextID, panicked>>

\* wsjson.Read fails on the transport (peer closed or unreachable): ReadPump
\* returns and its deferred function blocks on hub.unregister
ReadError(c) ==
    /\ ~panicked
    /\ env.fail > 0
    /\ env' = [env EXCEPT !.fail = @ - 1]
    /\ reader[c] = "run"
    /\ reader' = [reader EXCEPT ![c] = "unregistering"]
    /\ UNCHANGED <<pulseWS, sockets, mu, ranging, subscribing, userSend, event, clients, broadcast, send, sendClosed, doneClosed, subscribedChannels,
                   connClosed, acceptor, writer, enq, written, presence, nextID,
                   panicked>>

\* ------------------------------------------------- Hub.BroadcastToUser
\* the user-scoped events sent directly to one user
UserEvents == {NewEvent(EventTypeMessageDeleted, Nil, MessagePayload(Nil, 0))}

\* the connections a lookup of h.clients[userID] finds
lookup(m, uid) == IF uid \in DOMAIN m THEN m[uid] ELSE {}

\* BroadcastToUser up to `set, ok := h.clients[userID]`: json.Marshal and the
\* map lookup, made in the caller's goroutine without any synchronisation
BroadcastToUser(uid, data) ==
    /\ ~panicked
    /\ userSend = <<>>
    /\ env.user > 0
    /\ env' = [env EXCEPT !.user = @ - 1]
    /\ userSend' = <<[userID |-> uid, data |-> data, set |-> lookup(clients, uid),
                      visited |-> {}, raced |-> FALSE]>>
    /\ UNCHANGED <<pulseWS, sockets, mu, ranging, subscribing, event, clients, broadcast, send, sendClosed, doneClosed, subscribedChannels,
                   connClosed, acceptor, reader, writer, enq, written, presence, nextID,
                   panicked>>

\* one iteration of `for client := range set`: the non-blocking send
BroadcastToUserSend(c) ==
    /\ ~panicked
    /\ userSend # <<>>
    /\ c \in userSend[1].set
    /\ userSend' = <<[userSend[1] EXCEPT !.set = @ \ {c}, !.visited = @ \cup {c}]>>
    /\ reply(c, userSend[1].data)
    /\ UNCHANGED <<pulseWS, sockets, mu, ranging, subscribing, event, env, clients, broadcast, sendClosed, doneClosed, subscribedChannels,
                   connClosed, acceptor, reader, writer, written, presence, nextID>>

\* the Hub wrote the map while the loop ranges over it.  The Go runtime either
\* stops the process ("concurrent map iteration and map write") or lets the
\* loop go on over the map as the Hub left it.
BroadcastToUserRace ==
    /\ ~panicked
    /\ userSend # <<>>
    /\ userSend[1].raced
    /\ \/ /\ panicked' = TRUE
          /\ UNCHANGED userSend
       \/ /\ userSend' = <<[userSend[1] EXCEPT
                              !.set = lookup(clients, userSend[1].userID) \ userSend[1].visited,
                              !.raced = FALSE]>>
          /\ UNCHANGED panicked
    /\ UNCHANGED <<pulseWS, sockets, mu, ranging, subscribing, event, env, clients, broadcast, send, sendClosed, doneClosed,
                   subscribedChannels, connClosed, acceptor, reader, writer, enq, written,
                   presence, nextID>>

\* the range is exhausted: BroadcastToUser returns
BroadcastToUserReturn ==
    /\ ~panicked
    /\ userSend # <<>>
    /\ userSend[1].set = {}
    /\ userSend' = <<>>
    /\ UNCHANGED <<pulseWS, sockets, mu, ranging, subscribing, event, env, clients, broadcast, send, sendClosed, doneClosed,
                   subscribedChannels, connClosed, acceptor, reader, writer, enq, written,
                   presence, nextID, panicked>>

\* ----------------------------------------------------------- WritePump
\* mutant: the newest item is taken first
recvLast(q) == q[Len(q)]

\* message := <-c.send: the item a receive takes from the buffered channel q
recv(q) == Head(q)

\* mutant: the ticker case is preferred, the receive case is only taken once
\* the mailbox is full
WritePumpWriteWhenFull(c) ==
    /\ ~panicked
    /\ writer[c] = "run"
    /\ ~HasRoom(send[c])
    /\ ~connClosed[c]
    /\ send' = [send EXCEPT ![c] = Tail(@)]
    /\ written' = [written EXCEPT ![c] = Append(@, recv(send[c]))]
    /\ UNCHANGED <<pulseWS, sockets, mu, ranging, subscribing, userSend, event, env, clients, broadcast, sendClosed,
                   doneClosed, subscribedChannels, connClosed, acceptor, reader, writer, enq,
                   presence, nextID, panicked>>

\* case message, ok := <-c.send with ok, and conn.Write succeeds
WritePumpWrite(c) ==
    /\ ~panicked
    /\ writer[c] = "run"
    /\ send[c] # <<>>
    /\ ~connClosed[c]
    /\ send' = [send EXCEPT ![c] = Tail(@)]
    /\ written' = [written EXCEPT ![c] = Append(@, recv(send[c]))]
    /\ UNCHANGED <<pulseWS, sockets, mu, ranging, subscribing, userSend, event, env, clients, broadcast, sendClosed, doneClosed, subscribedChannels, connClosed,
                   acceptor, reader, writer, enq, presence, nextID, panicked>>

\* mutant: WritePump returns without its deferred conn.Close
WritePumpWriteErrorLeak(c) ==
    /\ ~panicked
    /\ env.fail > 0
    /\ env' = [env EXCEPT !.fail = @ - 1]
    /\ writer[c] = "run"
    /\ send[c] # <<>>
    /\ send' = [send EXCEPT ![c] = Tail(@)]
    /\ writer' = [writer EXCEPT ![c] = "exited"]
    /\ UNCHANGED <<pulseWS, sockets, mu, ranging, subscribing, userSend, event, clients, broadcast, sendClosed, doneClosed, subscribedChannels,
                   connClosed, acceptor, reader, enq, written, presence, nextID, panicked>>

\* case message, ok := <-c.send with ok, and conn.Write fails or times out
WritePumpWriteError(c) ==
    /\ ~panicked
    /\ env.fail > 0
    /\ env' = [env EXCEPT !.fail = @ - 1]
    /\ writer[c] = "run"
    /\ send[c] # <<>>
    /\ send' = [send EXCEPT ![c] = Tail(@)]
    /\ writer' = [writer EXCEPT ![c] = "exited"]
    /\ connClosed' = [connClosed EXCEPT ![c] = TRUE]
    /\ UNCHANGED <<pulseWS, sockets, mu, ranging, subscribing, userSend, event, clients, broadcast, sendClosed, doneClosed, subscribedChannels,
                   acceptor, reader, enq, written, presence, nextID, panicked>>

\* case <-ticker.C and conn.Ping fails
WritePumpPingError(c) ==
    /\ ~panicked
    /\ env.fail > 0
    /\ env' = [env EXCEPT !.fail = @ - 1]
    /\ writer[c] = "run"
    /\ writer' = [writer EXCEPT ![c] = "exited"]
    /\ connClosed' = [connClosed EXCEPT ![c] = TRUE]
    /\ UNCHANGED <<pulseWS, sockets, mu, ranging, subscribing, userSend, event, clients, broadcast, send, sendClosed, doneClosed, subscribedChannels,
                   acceptor, reader, enq, written, presence, nextID, panicked>>

\* case message, ok := <-c.send with !ok, or case <-c.done
WritePumpClosed(c) ==
    /\ ~panicked
    /\ writer[c] = "run"
    /\ (sendClosed[c] /\ send[c] = <<>>) \/ doneClosed[c]
    /\ writer' = [writer EXCEPT ![c] = "exited"]
    /\ connClosed' = [connClosed EXCEPT ![c] = TRUE]
    /\ UNCHANGED <<pulseWS, sockets, mu, ranging, subscribing, userSend, event, env, clients, broadcast, send, sendClosed, doneClosed, subscribedChannels,
                   acceptor, reader, enq, written, presence, nextID, panicked>>

\* ------------------------------------------------- Client.mu, by step
\* The actions above take IsSubscribed, Subscribe and Unsubscribe as one step
\* each.  The actions below take the same code statement by statement, with
\* the lock of each connection, to see how the two goroutines interleave.

\* mutant: IsSubscribed does not wait for the writer
canRLockAlways(m) == TRUE

\* sync.RWMutex.RLock returns once no writer holds the lock
canRLock(m) == ~m.writer

\* sync.RWMutex.Lock returns once nobody holds the lock
canLock(m) == ~m.writer /\ m.readers = 0

\* the body of the range in the broadcast case, for one connection that
\* passed both filters: the non-blocking send, or the drop of the connection
sendOrDrop(h, c, data) ==
    LET h1 == TrySend(h, {c}, data)
    IN IF HasRoom(h.send[c])
          THEN h1
          ELSE [h1 EXCEPT
                  !.clients = [u \in DOMAIN h.clients |-> h.clients[u] \ {c}],
                  !.sendClosed = [@ EXCEPT ![c] = TRUE],
                  !.doneClosed = [@ EXCEPT ![c] = TRUE],
                  !.panicked = @ \/ h.doneClosed[c]]

\* the Hub receives from h.broadcast and starts to range over h.clients
RangeBegin ==
    /\ ~panicked
    /\ ranging = <<>>
    /\ broadcast # <<>>
    /\ ranging' = <<[msg |-> Head(broadcast), todo |-> AllClients(clients),
                     at |-> Nil, pc |-> "range"]>>
    /\ broadcast' = Tail(broadcast)
    /\ UNCHANGED <<pulseWS, sockets, mu, subscribing, userSend, event, env, clients, send, sendClosed, doneClosed,
                   subscribedChannels, connClosed, acceptor, reader, writer, enq, written,
                   presence, nextID, panicked>>

\* the range reaches connection c: the excludeID filter, then the call of
\* client.IsSubscribed up to c.mu.RLock()
RangeVisit(c) ==
    /\ ~panicked
    /\ ranging # <<>>
    /\ ranging[1].pc = "range"
    /\ c \in ranging[1].todo
    /\ IF excluded(ranging[1].msg, userID(c))
          THEN /\ ranging' = <<[ranging[1] EXCEPT !.todo = @ \ {c}]>>
               /\ UNCHANGED mu
          ELSE /\ canRLock(mu[c])
               /\ mu' = [mu EXCEPT ![c].readers = @ + 1]
               /\ ranging' = <<[ranging[1] EXCEPT !.at = c, !.pc = "IsSubscribed"]>>
    /\ UNCHANGED <<pulseWS, sockets, subscribing, userSend, event, env, clients, broadcast, send, sendClosed,
                   doneClosed, subscribedChannels, connClosed, acceptor, reader, writer, enq,
                   written, presence, nextID, panicked>>

\* IsSubscribed reads the set and returns: the deferred c.mu.RUnlock()
IsSubscribedReturn ==
    /\ ~panicked
    /\ ranging # <<>>
    /\ ranging[1].pc = "IsSubscribed"
    /\ LET c == ranging[1].at
       IN /\ mu' = [mu EXCEPT ![c].readers = @ - 1]
          /\ ranging' = IF IsSubscribed(c, ranging[1].msg.channelID)
                           THEN <<[ranging[1] EXCEPT !.pc = "send"]>>
                           ELSE <<[ranging[1] EXCEPT !.todo = @ \ {c}, !.at = Nil,
                                                     !.pc = "range"]>>
    /\ UNCHANGED <<pulseWS, sockets, subscribing, userSend, event, env, clients, broadcast, send, sendClosed,
                   doneClosed, subscribedChannels, connClosed, acceptor, reader, writer, enq,
                   written, presence, nextID, panicked>>

\* the select of the range body for the connection that passed the filters
RangeSend ==
    /\ ~panicked
    /\ ranging # <<>>
    /\ ranging[1].pc = "send"
    /\ HubBecomes(sendOrDrop(HubState, ranging[1].at, ranging[1].msg.data))
    /\ ranging' = <<[ranging[1] EXCEPT !.todo = @ \ {ranging[1].at}, !.at = Nil,
                                       !.pc = "range"]>>
    /\ UNCHANGED <<pulseWS, sockets, mu, subscribing, event, env, broadcast, subscribedChannels, connClosed,
                   acceptor, reader, writer, written, nextID>>

\* the range is exhausted: the Hub is back at its select
RangeEnd ==
    /\ ~panicked
    /\ ranging # <<>>
    /\ ranging[1].pc = "range"
    /\ ranging[1].todo = {}
    /\ ranging' = <<>>
    /\ UNCHANGED <<pulseWS, sockets, mu, subscribing, userSend, event, env, clients, broadcast, send, sendClosed,
                   doneClosed, subscribedChannels, connClosed, acceptor, reader, writer, enq,
                   written, presence, nextID, panicked>>

\* handleEvent, case subscribe / unsubscribe with a valid payload, up to the
\* call of c.Subscribe / c.Unsubscribe
ReadSubscription(c, eventType, channelID) ==
    /\ readsFrame(c, eventType)
    /\ subscribing[c] = <<>>
    /\ env.sub > 0
    /\ env' = [env EXCEPT !.sub = @ - 1]
    /\ subscribing' = [subscribing EXCEPT ![c] = <<[method |-> eventType,
                                                    channelID |-> channelID,
                                                    locked |-> FALSE]>>]
    /\ UNCHANGED <<pulseWS, sockets, mu, ranging, userSend, clients, broadcast, send, sendClosed, doneClosed,
                   subscribedChannels, connClosed, acceptor, reader, writer, enq, written,
                   presence, nextID, panicked>>

\* Subscribe / Unsubscribe: c.mu.Lock()
SubscriptionLock(c) ==
    /\ ~panicked
    /\ subscribing[c] # <<>>
    /\ ~subscribing[c][1].locked
    /\ canLock(mu[c])
    /\ mu' = [mu EXCEPT ![c].writer = TRUE]
    /\ subscribing' = [subscribing EXCEPT ![c] = <<[@[1] EXCEPT !.locked = TRUE]>>]
    /\ UNCHANGED <<pulseWS, sockets, ranging, userSend, event, env, clients, broadcast, send, sendClosed,
                   doneClosed, subscribedChannels, connClosed, acceptor, reader, writer, enq,
                   written, presence, nextID, panicked>>

\* Subscribe / Unsubscribe: the write to the set, then the deferred c.mu.Unlock()
SubscriptionReturn(c) ==
    /\ ~panicked
    /\ subscribing[c] # <<>>
    /\ subscribing[c][1].locked
    /\ subscribedChannels' =
          [subscribedChannels EXCEPT
             ![c] = IF subscribing[c][1].method = EventTypeChannelSubscribe
                       THEN @ \cup {subscribing[c][1].channelID}
                       ELSE @ \ {subscribing[c][1].channelID}]
    /\ mu' = [mu EXCEPT ![c].writer = FALSE]
    /\ subscribing' = [subscribing EXCEPT ![c] = <<>>]
    /\ UNCHANGED <<pulseWS, sockets, ranging, userSend, event, env, clients, broadcast, send, sendClosed,
                   doneClosed, connClosed, acceptor, reader, writer, enq, written, presence,
                   nextID, panicked>>

\* ------------------------------------------- frontend: PulseWebSocket
\* the variables of the backend other than the subscription sets
hubVars == <<clients, broadcast, send, sendClosed, doneClosed, connClosed, acceptor, reader,
             writer, enq, written, presence, nextID, event, env, userSend, mu, ranging,
             subscribing, panicked>>

\* the frames of the client
SubscribeFrame(chId) == [type |-> EventTypeChannelSubscribe, channel_id |-> chId]
UnsubscribeFrame(chId) == [type |-> EventTypeChannelUnsubscribe, channel_id |-> chId]

\* the orders in which `for (const chId of this.subscribedChannels)` may visit set S
Orders(S) == {q \in [1..Cardinality(S) -> S] : {q[i] : i \in 1..Cardinality(S)} = S}

\* WebSocket.close(): a socket that is connecting or open starts to close;
\* its close event is dispatched later
close(sk, s) ==
    IF sk[s].readyState \in {"CONNECTING", "OPEN"}
       THEN [sk EXCEPT ![s].readyState = "CLOSING"]
       ELSE sk

\* this.ws?.close() / if (this.ws) this.ws.close()
closeCurrent(p, sk) == IF p.ws = <<>> THEN sk ELSE close(sk, p.ws[1])

\* PulseWebSocket.send: the frame is sent if this.ws is open, and lost otherwise
send_(p, sk, frame) ==
    IF p.ws # <<>> /\ sk[p.ws[1]].readyState = "OPEN"
       THEN [sk EXCEPT ![p.ws[1]].frames = Append(@, frame)]
       ELSE sk

\* the frames of a sequence, sent one after the other
RECURSIVE sendAll(_, _, _)
sendAll(p, sk, frames) ==
    IF frames = <<>> THEN sk ELSE sendAll(p, send_(p, sk, Head(frames)), Tail(frames))

\* a WebSocket object the client can create: one not created yet, or one
\* that is closed (the closed object is garbage)
Free(sk) == {s \in Sockets : sk[s].readyState \in {"NONE", "CLOSED"}}

\* the socket `new WebSocket(...)` returns
newSocket(sk) == CHOOSE s \in Free(sk) : \A t \in Free(sk) : s <= t

\* PulseWebSocket.doConnect up to the assignment of the handlers; token: an
\* access token is in localStorage.  The result is <<this, the sockets>>
doConnect(p, sk, token) ==
    IF ~token
       THEN <<p, sk>>
       ELSE <<[p EXCEPT !.ws = <<newSocket(sk)>>],
              [sk EXCEPT ![newSocket(sk)] = [NoSocket EXCEPT !.readyState = "CONNECTING"]]>>

\* if (this.reconnectTimer) { clearTimeout(this.reconnectTimer); this.reconnectTimer = null }
clearReconnectTimer(p) ==
    IF p.reconnectTimer # <<>>
       THEN [p EXCEPT !.reconnectTimer = <<>>, !.pending = @ - 1]
       ELSE p

\* mutant: the delay is doubled without the cap
scheduleReconnectUncapped(p) ==
    IF p.reconnectTimer # <<>>
       THEN p
       ELSE [p EXCEPT !.reconnectTimer = <<p.reconnectDelay>>,
                      !.pending = @ + 1,
                      !.reconnectDelay = p.reconnectDelay * 2]

\* PulseWebSocket.scheduleReconnect
scheduleReconnect(p) ==
    IF p.reconnectTimer # <<>>
       THEN p
       ELSE [p EXCEPT !.reconnectTimer = <<p.reconnectDelay>>,
                      !.pending = @ + 1,
                      !.reconnectDelay = IF p.reconnectDelay * 2 < MAX_RECONNECT_DELAY
                                            THEN p.reconnectDelay * 2
                                            ELSE MAX_RECONNECT_DELAY]

\* a step of the client creates no WebSocket object beyond those the model has,
\* and leaves no more than maxFrames frames unread on any of them
Bounded(token) == token => Free(sockets) # {}
Fits(sk) == \A s \in Sockets : Len(sk[s].frames) <= maxFrames

\* the client's subscription set is written: history
stale(sk) == [s \in Sockets |-> [sk[s] EXCEPT !.fresh = FALSE]]

\* PulseWebSocket.connect
connect(token) ==
    /\ Bounded(token)
    /\ LET sk1 == closeCurrent(pulseWS, sockets)
           p1 == [clearReconnectTimer(pulseWS) EXCEPT !.ws = <<>>, !.shouldReconnect = TRUE]
           r == doConnect(p1, sk1, token)
       IN /\ pulseWS' = r[1]
          /\ sockets' = r[2]
    /\ UNCHANGED <<hubVars, subscribedChannels>>

\* PulseWebSocket.disconnect
disconnect ==
    /\ pulseWS' = [clearReconnectTimer(pulseWS) EXCEPT !.shouldReconnect = FALSE,
                                                       !.subscribedChannels = {},
                                                       !.ws = <<>>]
    /\ sockets' = stale(closeCurrent(pulseWS, sockets))
    /\ UNCHANGED <<hubVars, subscribedChannels>>

\* PulseWebSocket.subscribe
subscribe(channelId) ==
    /\ pulseWS' = [pulseWS EXCEPT !.subscribedChannels = @ \cup {channelId}]
    /\ sockets' = stale(send_(pulseWS', sockets, SubscribeFrame(channelId)))
    /\ Fits(sockets')
    /\ UNCHANGED <<hubVars, subscribedChannels>>

\* PulseWebSocket.unsubscribe
unsubscribe(channelId) ==
    /\ pulseWS' = [pulseWS EXCEPT !.subscribedChannels = @ \ {channelId}]
    /\ sockets' = stale(send_(pulseWS', sockets, UnsubscribeFrame(channelId)))
    /\ Fits(sockets')
    /\ UNCHANGED <<hubVars, subscribedChannels>>

\* the open event of socket s: the server has accepted the connection
\* (ServeWS, NewClient: an empty subscription set) and this.ws.onopen runs
onopen(s) ==
    /\ sockets[s].readyState = "CONNECTING"
    /\ pulseWS' = [pulseWS EXCEPT !.reconnectDelay = InitialReconnectDelay]
    /\ \E q \in Orders(pulseWS.subscribedChannels) :
          sockets' = sendAll(pulseWS',
                             [sockets EXCEPT ![s].readyState = "OPEN", ![s].fresh = TRUE],
                             [i \in 1..Len(q) |-> SubscribeFrame(q[i])])
    /\ Fits(sockets')
    /\ subscribedChannels' = [subscribedChannels EXCEPT ![s] = {}]
    /\ UNCHANGED hubVars

\* the close event of socket s, after close() or after the connection failed
\* or the server closed it: this.ws.onclose runs.  The frames the server has
\* not read yet are taken as lost with the connection, and the Client of the
\* server end as gone with its subscription set.
onclose(s) ==
    /\ sockets[s].readyState \in {"CONNECTING", "OPEN", "CLOSING"}
    /\ sockets' = [sockets EXCEPT ![s] = [NoSocket EXCEPT !.readyState = "CLOSED"]]
    /\ pulseWS' = IF pulseWS.shouldReconnect THEN scheduleReconnect(pulseWS) ELSE pulseWS
    /\ subscribedChannels' = [subscribedChannels EXCEPT ![s] = {}]
    /\ UNCHANGED hubVars

\* the reconnect timer fires: the callback given to setTimeout
reconnectTimerFires(token) ==
    /\ pulseWS.pending > 0
    /\ Bounded(token)
    /\ LET r == doConnect([pulseWS EXCEPT !.reconnectTimer = <<>>, !.pending = @ - 1],
                          sockets, token)
       IN /\ pulseWS' = r[1]
          /\ sockets' = r[2]
    /\ UNCHANGED <<hubVars, subscribedChannels>>

\* the server end of socket s: ReadPump reads the next frame and handleEvent
\* calls c.Subscribe / c.Unsubscribe
ServerRead(s) ==
    /\ sockets[s].frames # <<>>
    /\ sockets' = [sockets EXCEPT ![s].frames = Tail(@)]
    /\ LET frame == Head(sockets[s].frames)
       IN subscribedChannels' =
             [subscribedChannels EXCEPT
                ![s] = IF frame.type = EventTypeChannelSubscribe
                          THEN @ \cup {frame.channel_id}
                          ELSE @ \ {frame.channel_id}]
    /\ UNCHANGED <<hubVars, pulseWS>>

\* ---------------------------------------------------------------- spec
Next ==
    \/ \E c \in Conns : ServeWS(c)
    \/ \E c \in Conns : HubRegister(c)
    \/ \E c \in Conns : HubUnregister(c)
    \/ HubBroadcast
    \/ NotifyNewMessage
    \/ NotifyEditedMessage
    \/ NotifyDeletedMessage
    \/ NotifyNewDM
    \/ NotifyEditedDM
    \/ NotifyDeletedDM
    \/ \E uid \in Users, data \in UserEvents : BroadcastToUser(uid, data)
    \/ \E c \in Conns : BroadcastToUserSend(c)
    \/ BroadcastToUserRace
    \/ BroadcastToUserReturn
    \/ \E c \in Conns, ch \in Scopes : ReadSubscribe(c, ch)
    \/ \E c \in Conns, ch \in Scopes : ReadUnsubscribe(c, ch)
    \/ \E c \in Conns : ReadInvalidPayload(c, EventTypeChannelSubscribe)
    \/ \E c \in Conns : ReadInvalidPayload(c, EventTypeChannelUnsubscribe)
    \/ \E c \in Conns, ch \in Scopes : ReadTypingStart(c, ch)
    \/ \E c \in Conns : ReadTypingStop(c)
    \/ \E c \in Conns, t \in {EventTypeTypingStart, EventTypeTypingStop} : ReadTypingNoChannel(c, t)
    \/ \E c \in Conns : ReadPing(c)
    \/ \E c \in Conns : ReadUnknown(c)
    \/ \E c \in Conns : ReadMalformed(c)
    \/ \E c \in Conns : ReadClosed(c)
    \/ \E c \in Conns : ReadError(c)
    \/ \E c \in Conns : WritePumpWrite(c)
    \/ \E c \in Conns : WritePumpWriteError(c)
    \/ \E c \in Conns : WritePumpPingError(c)
    \/ \E c \in Conns : WritePumpClosed(c)

Spec == Init /\ [][Next]_vars

\* the control loop keeps running: `go hub.Run()` is never descheduled for
\* ever, so a case of its select that stays ready is eventually taken.
\* Nothing is assumed of the pumps, the peers or the callers.
Hub ==
    \/ \E c \in Conns : HubRegister(c)
    \/ \E c \in Conns : HubUnregister(c)
    \/ HubBroadcast

LoopSpec == LiveInit /\ [][Next]_vars /\ WF_vars(Hub)

\* moreover every WritePump goroutine is scheduled: once its mailbox or its
\* done signal is closed, its select takes that case
PumpSpec == LoopSpec /\ \A c \in LiveConns : WF_vars(WritePumpClosed(c))

\* and every ReadPump goroutine is scheduled: once its socket is closed, its
\* blocked wsjson.Read returns
ConnSpec == PumpSpec /\ \A c \in LiveConns : WF_vars(ReadClosed(c))

\* every WritePump goroutine is scheduled and its select is fair between its
\* ready cases (the Go runtime picks one of them at random): while the mailbox
\* holds an item and the socket takes it, the receive case is eventually taken,
\* whatever the ticker does
WriteSpec == LiveInit /\ [][Next]_vars /\ \A c \in LiveConns : WF_vars(WritePumpWrite(c))

\* the control loop is one goroutine: between two cases of its select it is
\* not inside the range of the broadcast case
HubAtSelect == ranging = <<>>

\* the reader loop of c is one goroutine: it reads the next frame once
\* handleEvent has returned
ReaderAtRead(c) == subscribing[c] = <<>>

\* the same program with IsSubscribed, Subscribe and Unsubscribe taken
\* statement by statement
LockNext ==
    \/ \E c \in Conns : ServeWS(c)
    \/ \E c \in Conns : HubAtSelect /\ HubRegister(c)
    \/ \E c \in Conns : HubAtSelect /\ HubUnregister(c)
    \/ RangeBegin
    \/ \E c \in Conns : RangeVisit(c)
    \/ IsSubscribedReturn
    \/ RangeSend
    \/ RangeEnd
    \/ NotifyNewMessage
    \/ NotifyEditedMessage
    \/ NotifyDeletedMessage
    \/ NotifyNewDM
    \/ NotifyEditedDM
    \/ NotifyDeletedDM
    \/ \E uid \in Users, data \in UserEvents : BroadcastToUser(uid, data)
    \/ \E c \in Conns : BroadcastToUserSend(c)
    \/ BroadcastToUserRace
    \/ BroadcastToUserReturn
    \/ \E c \in Conns, ch \in Scopes,
          t \in {EventTypeChannelSubscribe, EventTypeChannelUnsubscribe} :
          ReadSubscription(c, t, ch)
    \/ \E c \in Conns : SubscriptionLock(c)
    \/ \E c \in Conns : SubscriptionReturn(c)
    \/ \E c \in Conns : ReaderAtRead(c) /\ ReadInvalidPayload(c, EventTypeChannelSubscribe)
    \/ \E c \in Conns : ReaderAtRead(c) /\ ReadInvalidPayload(c, EventTypeChannelUnsubscribe)
    \/ \E c \in Conns, ch \in Scopes : ReaderAtRead(c) /\ ReadTypingStart(c, ch)
    \/ \E c \in Conns : ReaderAtRead(c) /\ ReadTypingStop(c)
    \/ \E c \in Conns, t \in {EventTypeTypingStart, EventTypeTypingStop} :
          ReaderAtRead(c) /\ ReadTypingNoChannel(c, t)
    \/ \E c \in Conns : ReaderAtRead(c) /\ ReadPing(c)
    \/ \E c \in Conns : ReaderAtRead(c) /\ ReadUnknown(c)
    \/ \E c \in Conns : ReaderAtRead(c) /\ ReadMalformed(c)
    \/ \E c \in Conns : ReaderAtRead(c) /\ ReadClosed(c)
    \/ \E c \in Conns : ReaderAtRead(c) /\ ReadError(c)
    \/ \E c \in Conns : WritePumpWrite(c)
    \/ \E c \in Conns : WritePumpWriteError(c)
    \/ \E c \in Conns : WritePumpPingError(c)
    \/ \E c \in Conns : WritePumpClosed(c)

LockSpec == LiveInit /\ [][LockNext]_vars

\* the frontend client, its sockets and the server end of each socket
ClientNext ==
    \/ \E token \in BOOLEAN : connect(token)
    \/ disconnect
    \/ \E chId \in ChannelIDs : subscribe(chId)
    \/ \E chId \in ChannelIDs : unsubscribe(chId)
    \/ \E s \in Sockets : onopen(s)
    \/ \E s \in Sockets : onclose(s)
    \/ \E token \in BOOLEAN : reconnectTimerFires(token)
    \/ \E s \in Sockets : ServerRead(s)

ClientSpec == ClientInit /\ [][ClientNext]_vars

\* ============================================================== claims
\* what the claims speak of, stated on the state and not through the Hub's
\* own helpers
InMap(c) == userID(c) \in DOMAIN clients /\ c \in clients[userID(c)]
Open(c) == acceptor[c] = "started" /\ ~sendClosed[c]
Room(c) == Len(send[c]) < sendBufSize
Occurs(e, q) == Cardinality({i \in 1..Len(q) : q[i] = e})
Online(uid) == NewEvent(EventTypePresence, Nil, PresencePayload(uid, "online"))
Offline(uid) == NewEvent(EventTypePresence, Nil, PresencePayload(uid, "offline"))
Pong == NewEvent(EventTypePong, Nil, NoPayload)
NotifierTypes == {EventTypeMessageNew, EventTypeMessageEdited, EventTypeMessageDeleted,
                  EventTypeDMNew, EventTypeDMEdited, EventTypeDMDeleted}

\* the steps of the control loop, recognised by what they consume
BroadcastStep == broadcast # <<>> /\ broadcast' = Tail(broadcast)
RegisterStep(c) == acceptor[c] = "registering" /\ acceptor'[c] = "started"
UnregisterStep(c) == reader[c] = "unregistering" /\ reader'[c] = "exited"

\* the reader's steps: a frame of the given type was read and handled
PingStep(c) == ReadPing(c) /\ event'[c] = EventTypePing

\* C1: a user id is a key of the membership map if and only if at least one
\* connection of that user is registered (registered by the Hub and its mailbox
\* not closed by the Hub since); no user id is mapped to an empty set.
C1_MembershipIffRegistered ==
    \A u \in Users :
        /\ (u \in DOMAIN clients) <=> (\E c \in Conns : userID(c) = u /\ Open(c))
        /\ (u \in DOMAIN clients) => clients[u] # {}

\* C2: when the Hub processes a channel broadcast, every registered connection
\* that is subscribed to the scope, has room in its mailbox and does not belong
\* to the excluded user gets the envelope appended once; no connection of the
\* excluded user (any tab) gets anything.
C2_BroadcastFanout ==
    [][BroadcastStep =>
        LET msg == Head(broadcast)
        IN \A c \in Conns :
              /\ ( /\ InMap(c)
                   /\ msg.channelID \in subscribedChannels[c]
                   /\ Room(c)
                   /\ (msg.excludeID = Nil \/ userID(c) # msg.excludeID) )
                 => /\ enq'[c] = Append(enq[c], msg.data)
                    /\ send'[c] = Append(send[c], msg.data)
              /\ (msg.excludeID # Nil /\ userID(c) = msg.excludeID)
                 => /\ enq'[c] = enq[c]
                    /\ send'[c] = send[c]
              /\ Len(enq'[c]) <= Len(enq[c]) + 1
    ]_vars

\* C2 witness: a typing event of user B reached the subscribed connection of A
\* and neither tab of B, although B's other tab is registered and subscribed.
C2_Witness ==
    \E i \in 1..Len(enq[2]) :
        /\ enq[2][i].type = EventTypeTyping
        /\ enq[2][i].payload.user = "B"
        /\ InMap(1) /\ InMap(3)
        /\ \E d \in {1, 3} : enq[2][i].channel \in subscribedChannels[d]
        /\ Occurs(enq[2][i], enq[1]) = 0
        /\ Occurs(enq[2][i], enq[3]) = 0

\* C3 as claimed: register(c) for a user without a registered connection appends
\* one presence online to the mailbox of every connection of every other
\* registered user and to none of the user's own; register(c) for a user with a
\* registered connection appends no presence envelope.
C3_Original ==
    [][\A c \in Conns : RegisterStep(c) =>
          LET uid == userID(c)
              first == ~\E d \in Conns : InMap(d) /\ userID(d) = uid
          IN \A d \in Conns :
                enq'[d] = IF first /\ InMap(d) /\ userID(d) # uid
                             THEN Append(enq[d], Online(uid))
                             ELSE enq[d]
    ]_vars

\* C3 amended: as C3, but a connection whose mailbox is full silently misses
\* the presence envelope.
C3_RegisterPresence ==
    [][\A c \in Conns : RegisterStep(c) =>
          LET uid == userID(c)
              first == ~\E d \in Conns : InMap(d) /\ userID(d) = uid
          IN /\ \A d \in Conns :
                   enq'[d] = IF first /\ InMap(d) /\ userID(d) # uid /\ Room(d)
                                THEN Append(enq[d], Online(uid))
                                ELSE enq[d]
             /\ presence' = IF first THEN Append(presence, <<uid, "online">>) ELSE presence
    ]_vars

\* C3 witness: both tabs of B were registered, then A's first connection; each
\* tab of B got A's online once, and B's second tab emitted nothing.
C3_Witness ==
    /\ InMap(1) /\ InMap(2) /\ InMap(3)
    /\ presence = << <<"B", "online">>, <<"A", "online">> >>
    /\ Occurs(Online("A"), enq[1]) = 1
    /\ Occurs(Online("A"), enq[3]) = 1
    /\ Occurs(Online("B"), enq[2]) = 0

\* C4: unregister(c) of a registered connection emits exactly one presence
\* offline, to the remaining connections, if c was its user's last registered
\* connection, and no presence event otherwise.
C4_UnregisterPresence ==
    [][\A c \in Conns : (UnregisterStep(c) /\ InMap(c)) =>
          LET uid == userID(c)
              last == ~\E d \in Conns \ {c} : InMap(d) /\ userID(d) = uid
          IN IF last
                THEN /\ presence' = Append(presence, <<uid, "offline">>)
                     /\ \A d \in Conns :
                           enq'[d] = IF InMap(d) /\ d # c /\ Room(d)
                                        THEN Append(enq[d], Offline(uid))
                                        ELSE enq[d]
                ELSE /\ presence' = presence
                     /\ enq' = enq
    ]_vars

\* C4 witness: one tab of B left without a presence event, the only connection
\* of A left and B's remaining tab got A's offline.
C4_Witness ==
    /\ reader[1] = "exited" /\ reader[2] = "exited" /\ InMap(3)
    /\ Occurs(<<"A", "offline">>, presence) = 1
    /\ Occurs(<<"B", "offline">>, presence) = 0
    /\ Occurs(Offline("A"), enq[3]) = 1

\* C5: a channel broadcast drops (removes and closes) a connection it targets
\* exactly when the mailbox already holds sendBufSize items; for a mailbox
\* that was never drained that is exactly when sendBufSize envelopes were
\* enqueued before.  A mailbox never holds more than sendBufSize items.
C5_DropAtCapacity ==
    [][BroadcastStep =>
        LET msg == Head(broadcast)
        IN \A c \in Conns :
              /\ ( /\ InMap(c)
                   /\ msg.channelID \in subscribedChannels[c]
                   /\ (msg.excludeID = Nil \/ userID(c) # msg.excludeID) )
                 => /\ (~InMap(c)') <=> (Len(send[c]) = sendBufSize)
                    /\ sendClosed'[c] <=> (Len(send[c]) = sendBufSize)
                    /\ (send[c] = enq[c]) => ((~InMap(c)') <=> (Len(enq[c]) = sendBufSize))
              /\ Len(send'[c]) <= sendBufSize
    ]_vars

\* C5 witness: a connection whose mailbox was never drained was dropped by a
\* broadcast (its reader still runs) after exactly sendBufSize enqueues.
C5_Witness ==
    \E c \in Conns :
        /\ sendClosed[c] /\ reader[c] = "run" /\ ~InMap(c)
        /\ written[c] = <<>>
        /\ send[c] = enq[c]
        /\ Len(enq[c]) = sendBufSize

\* C6: unregister is idempotent: in every reachable Hub state and for every
\* connection c, handling unregister(c) a second time leaves the membership
\* map, every mailbox, the closed channels and the emitted presence events
\* as the first handling left them.
C6_UnregisterIdempotent ==
    \A c \in Conns :
        LET once == unregisterCase(HubState, c)
        IN unregisterCase(once, c) = once

\* C6 witness: a connection was removed twice: dropped by a broadcast (which
\* closed its mailbox) and then unregistered by its reader.
C6_Witness ==
    \E c \in Conns :
        /\ reader[c] = "exited"
        /\ sendClosed[c]
        /\ userID(c) \in DOMAIN clients
        /\ clients[userID(c)] = {}
        /\ Occurs(<<userID(c), "offline">>, presence) = 0
        /\ \E d \in Conns \ {c} : InMap(d)

C8_Original ==
    [][(BroadcastStep /\ Head(broadcast).data.type = EventTypeDMNew
          /\ InMap(1) /\ InMap(3)) =>
        \A c \in {1, 3} : enq'[c] = Append(enq[c], Head(broadcast).data)
    ]_vars

\* C8 amended: while B has two registered connections, a dm.new broadcast is
\* appended exactly once to the mailbox of each of B's connections that is
\* subscribed to the conversation and has room, and to that of no other
\* connection of B; no mailbox ever holds the same dm.new twice.
C8_BothTabsReceiveDM ==
    [][(BroadcastStep /\ Head(broadcast).data.type = EventTypeDMNew
          /\ InMap(1) /\ InMap(3)) =>
        LET msg == Head(broadcast)
        IN \A c \in {1, 3} :
              /\ enq'[c] = IF msg.channelID \in subscribedChannels[c] /\ Room(c)
                              THEN Append(enq[c], msg.data)
                              ELSE enq[c]
              /\ Occurs(msg.data, enq'[c]) <= 1
    ]_vars

\* C8 witness: both tabs of B hold one and the same dm.new of A, once each.
C8_Witness ==
    \E i \in 1..Len(enq[1]) :
        /\ enq[1][i].type = EventTypeDMNew
        /\ enq[1][i].payload.user = "A"
        /\ Occurs(enq[1][i], enq[1]) = 1
        /\ Occurs(enq[1][i], enq[3]) = 1

\* C9 as claimed: every inbound ping on a connection whose mailbox is open
\* appends exactly one pong to that mailbox and changes nothing else.
C9_Original ==
    [][\A c \in Conns : (PingStep(c) /\ Open(c)) =>
          /\ enq'[c] = Append(enq[c], Pong)
          /\ \A d \in Conns \ {c} : enq'[d] = enq[d]
          /\ UNCHANGED <<userSend, clients, broadcast, subscribedChannels, presence>>
    ]_vars

\* C9 amended: an inbound ping on a connection whose mailbox is open appends
\* exactly one pong to that mailbox if it has room and nothing if it is full;
\* no broadcast is requested and no other mailbox, the membership map and no
\* subscription set change.
C9_PingPong ==
    [][\A c \in Conns : (PingStep(c) /\ Open(c)) =>
          /\ enq'[c] = IF Room(c) THEN Append(enq[c], Pong) ELSE enq[c]
          /\ send'[c] = IF Room(c) THEN Append(send[c], Pong) ELSE send[c]
          /\ \A d \in Conns \ {c} : enq'[d] = enq[d] /\ send'[d] = send[d]
          /\ UNCHANGED <<userSend, clients, broadcast, subscribedChannels, presence, sendClosed,
                         doneClosed, panicked>>
    ]_vars

\* C9 witness: a registered connection holds a pong and nothing was broadcast.
C9_Witness ==
    \E c \in Conns :
        /\ InMap(c)
        /\ Occurs(Pong, enq[c]) = 1
        /\ broadcast = <<>>
        /\ subscribedChannels[c] = {}

\* C10: the envelopes written to a connection's socket are always a prefix of
\* the envelopes enqueued into its mailbox, in the same order.
C10_WrittenPrefixOfEnqueued ==
    \A c \in Conns :
        /\ Len(written[c]) <= Len(enq[c])
        /\ \A i \in 1..Len(written[c]) : written[c][i] = enq[c][i]

\* C10 witness: two different envelopes were written and a third one waits.
C10_Witness ==
    \E c \in Conns :
        /\ Len(written[c]) >= 2
        /\ written[c][1] # written[c][2]
        /\ send[c] # <<>>

\* the steps of a BroadcastToUser call: the lookup and the send to connection c
UserLookupStep == userSend = <<>> /\ userSend' # <<>>
UserSendStep(c) ==
    /\ userSend # <<>> /\ userSend' # <<>>
    /\ c \notin userSend[1].visited
    /\ userSend'[1].visited = userSend[1].visited \cup {c}

\* C11: BroadcastToUser(U, e) enqueues e to every registered connection of U
\* whatever its subscriptions and to no connection of another user; a
\* connection of U whose mailbox is full misses e but stays registered with its
\* mailbox open, and the membership map is unchanged.
C11_SendToUser ==
    [][/\ UserLookupStep =>
             userSend'[1].set = {c \in Conns : InMap(c) /\ userID(c) = userSend'[1].userID}
       /\ \A c \in Conns :
            UserSendStep(c) =>
               /\ userID(c) = userSend[1].userID
               /\ InMap(c)' /\ ~sendClosed'[c] /\ ~panicked'
               /\ clients' = clients
               /\ enq'[c] = IF Room(c) THEN Append(enq[c], userSend[1].data) ELSE enq[c]
               /\ \A d \in Conns \ {c} : enq'[d] = enq[d]]_vars

\* C12: a connection dropped for a full mailbox during a channel broadcast is
\* unregistered as by unregister: it leaves its user's set, its mailbox is
\* closed, and if it was the user's last connection the user's entry leaves
\* the map and presence "offline" for that user goes to the remaining users.
C12_DropAsUnregister ==
    [][BroadcastStep =>
         \A c \in Conns :
            InMap(c) /\ ~InMap(c)' =>
               /\ sendClosed'[c]
               /\ (\A d \in Conns \ {c} : userID(d) = userID(c) => ~InMap(d)') =>
                     /\ userID(c) \notin DOMAIN clients'
                     /\ presence' = Append(presence, <<userID(c), "offline">>)
                     /\ \A d \in Conns :
                           InMap(d)' /\ Room(d) => Occurs(Offline(userID(c)), enq'[d])
                                                     = Occurs(Offline(userID(c)), enq[d]) + 1]_vars

\* C13: the membership map is read and written by the control loop only: no
\* goroutine outside the loop is reading the map (BroadcastToUser between its
\* lookup and the end of its range) when a step of the loop writes it.
C13_MapOwnedByLoop ==
    [][userSend # <<>> => clients' = clients]_vars

\* C14: a Notify* / BroadcastToChannel call never waits for a connection's
\* socket: while the control loop keeps running (and the process has not
\* panicked), a full Hub.broadcast buffer, on which the call blocks, gets room
\* again, whatever the writers do and however full the mailboxes are.
C14_CallReturns ==
    (Len(broadcast) = broadcastBufSize) ~> (Len(broadcast) < broadcastBufSize \/ panicked)

\* the second Notify* call went through although the first one met a full
\* mailbox whose writer never wrote anything
C14_Witness ==
    /\ nextID = 2
    /\ broadcast # <<>>
    /\ \E c \in Conns : acceptor[c] = "started" /\ Len(send[c]) = sendBufSize /\ written[c] = <<>>

\* a frame of an unknown type was read and handled by connection c
UnknownStep(c) == ReadUnknown(c) /\ event'[c] = EventTypeMessageSend
UnknownEvent == NewEvent(EventTypeError, Nil, ErrorPayload("UNKNOWN_EVENT", "unknown event type"))

\* C15: an inbound envelope of an unknown kind, read by a connection whose
\* mailbox has room, is answered with one error envelope in that mailbox and
\* the connection stays open: nothing panics, the reader keeps reading, the
\* connection stays registered if it was, and no subscription set changes.
C15_UnknownAnswered ==
    [][\A c \in Conns : (UnknownStep(c) /\ Room(c)) =>
          /\ enq'[c] = Append(enq[c], UnknownEvent)
          /\ ~panicked'
          /\ reader'[c] = "run"
          /\ InMap(c) => InMap(c)'
          /\ subscribedChannels' = subscribedChannels
    ]_vars

\* a frame that is not a well-formed envelope was read by connection c
MalformedStep(c) == ReadMalformed(c) /\ reader[c] = "run"

\* C16: an inbound frame that does not decode as an envelope, read by a
\* connection whose mailbox has room, is answered with an error envelope and
\* does not end the connection: the reader keeps reading and does not ask
\* the Hub to unregister the connection.
C16_MalformedAnswered ==
    [][\A c \in Conns : (MalformedStep(c) /\ Room(c)) =>
          /\ Len(enq'[c]) = Len(enq[c]) + 1
          /\ enq'[c][Len(enq'[c])].type = EventTypeError
          /\ reader'[c] = "run"
    ]_vars

\* C17: once a connection's ReadPump has seen wsjson.Read fail and waits to
\* hand the connection to the Hub, the connection eventually is out of the
\* membership map with its mailbox closed and its WritePump ended, as long as
\* the control loop keeps running (and the process has not panicked).
C17_ReadErrorCleansUp ==
    \A c \in LiveConns :
        (reader[c] = "unregistering")
            ~> ((~InMap(c) /\ sendClosed[c] /\ writer[c] = "exited") \/ panicked)

\* a connection whose reader failed is out of the map, closed, and both its
\* pumps have ended
C17_Witness ==
    \E c \in Conns :
        /\ reader[c] = "exited"
        /\ ~InMap(c) /\ sendClosed[c] /\ doneClosed[c]
        /\ writer[c] = "exited"
        /\ ~panicked

\* a step of the control loop
HubStep == BroadcastStep \/ (\E c \in Conns : RegisterStep(c) \/ UnregisterStep(c))

\* C18: whatever the interleaving of unregister requests and overflow drops, a
\* connection leaves the registry at most once (it never comes back), the
\* step that removes it is the one step that closes its mailbox and its done
\* signal, no step of the loop closes a channel twice (which would panic),
\* and a removed connection is never left open.
C18_RemovedAndClosedOnce ==
    [][/\ \A c \in Conns :
            /\ (InMap(c) /\ ~InMap(c)') =>
                  ~sendClosed[c] /\ ~doneClosed[c] /\ sendClosed'[c] /\ doneClosed'[c]
            /\ (sendClosed'[c] # sendClosed[c] \/ doneClosed'[c] # doneClosed[c]) =>
                  InMap(c) /\ ~InMap(c)'
            /\ (acceptor[c] = "started" /\ ~InMap(c)) => ~InMap(c)'
            /\ (acceptor'[c] = "started" /\ ~InMap(c)') => sendClosed'[c] /\ doneClosed'[c]
       /\ (HubStep /\ ~panicked) => ~panicked'
    ]_vars

\* a connection was dropped by a broadcast and, later, unregistered by its
\* reader, and the process runs on
C18_Witness ==
    \E c \in Conns :
        /\ reader[c] = "exited"
        /\ ~InMap(c) /\ sendClosed[c] /\ doneClosed[c]
        /\ userID(c) \in DOMAIN clients /\ clients[userID(c)] = {}
        /\ Len(enq[c]) = sendBufSize
        /\ ~panicked

\* the envelopes of scope ch in the sequence q
Scoped(ch, q) == {i \in 1..Len(q) : q[i].channel = ch}

\* C19: when the control loop processes a broadcast for scope X, nothing is
\* enqueued to a connection whose subscription set does not contain X at that
\* moment, be the envelope a message or a typing notification.
C19_OnlySubscribers ==
    [][BroadcastStep =>
         \A c \in Conns :
            Head(broadcast).channelID \notin subscribedChannels[c] =>
               enq'[c] = enq[c] /\ send'[c] = send[c]
    ]_vars

\* one registered connection, subscribed to X, holds an X-scoped envelope;
\* another registered connection, subscribed to another scope only (all
\* subscription frames of the run are spent), holds none
C19_Witness ==
    \E c, d \in Conns, X \in Scopes :
        /\ InMap(c) /\ InMap(d)
        /\ X \in subscribedChannels[d] /\ Scoped(X, enq[d]) # {}
        /\ subscribedChannels[c] = Scopes \ {X} /\ Scoped(X, enq[c]) = {}
        /\ env.sub = 0 /\ broadcast = <<>>

\* the positions at which connections c and d hold the same channel-scoped
\* envelope, each of them once
Shared(c, d) ==
    {p \in (1..Len(enq[c])) \X (1..Len(enq[d])) :
        /\ enq[c][p[1]] = enq[d][p[2]]
        /\ enq[c][p[1]].channel # Nil
        /\ Occurs(enq[c][p[1]], enq[c]) = 1
        /\ Occurs(enq[d][p[2]], enq[d]) = 1}

Idle ==
    /\ broadcast = <<>>
    /\ \A c \in Conns : acceptor[c] # "registering" /\ reader[c] # "unregistering"

C22_DropDoesNotAbort ==
    [][(BroadcastStep /\ \E c \in Conns : InMap(c) /\ ~InMap(c)') =>
         \A d \in Conns :
            (/\ InMap(d)
             /\ Head(broadcast).channelID \in subscribedChannels[d]
             /\ userID(d) # Head(broadcast).excludeID
             /\ Room(d))
               => enq'[d] = Append(enq[d], Head(broadcast).data)
                  /\ send'[d] = Append(send[d], Head(broadcast).data)
    ]_vars

\* one connection was dropped by the second notification's broadcast (its
\* reader has not asked for unregistration) and does not hold that envelope;
\* another, still registered, holds it
C22_Witness ==
    \E c, d \in Conns :
        /\ ~InMap(c) /\ sendClosed[c] /\ reader[c] = "run"
        /\ InMap(d)
        /\ nextID = 2
        /\ \E i \in 1..Len(enq[d]) : enq[d][i].payload.id = 2
        /\ \A i \in 1..Len(enq[c]) : enq[c][i].payload.id # 2

\* connection c read a typing frame of the given type that carries a scope
TypingStep(c, eventType) ==
    /\ (\E X \in Scopes : ReadTypingStart(c, X)) \/ ReadTypingStop(c)
    /\ event'[c] = eventType
TypingEvent(X, uid) == NewEvent(EventTypeTyping, X, TypingPayload(uid))

\* C23: a typing.start with scope X read from a connection of user U puts
\* exactly one request into Hub.broadcast, a typing envelope for X naming U
\* and excluding U, and replies nothing; when the loop processes it no
\* connection of U gets it.  A typing.stop requests no broadcast and replies
\* nothing.
C23_Typing ==
    [][/\ \A c \in Conns :
            /\ TypingStep(c, EventTypeTypingStart) =>
                  /\ \E X \in Scopes :
                        broadcast' = Append(broadcast, [channelID |-> X,
                                                        data |-> TypingEvent(X, userID(c)),
                                                        excludeID |-> userID(c)])
                  /\ enq' = enq /\ send' = send
            /\ TypingStep(c, EventTypeTypingStop) =>
                  broadcast' = broadcast /\ enq' = enq /\ send' = send
       /\ (BroadcastStep /\ Head(broadcast).data.type = EventTypeTyping) =>
             \A d \in Conns :
                userID(d) = Head(broadcast).data.payload.user => enq'[d] = enq[d]
    ]_vars

\* the sender of a typing.start is subscribed to the scope and holds no typing
\* envelope for it, while a connection of another user holds exactly one
C23_Witness ==
    \E c, d \in Conns, X \in Scopes :
        /\ event[c] = EventTypeTypingStart
        /\ X \in subscribedChannels[c]
        /\ Occurs(TypingEvent(X, userID(c)), enq[c]) = 0
        /\ Occurs(TypingEvent(X, userID(c)), enq[d]) = 1
        /\ broadcast = <<>>

\* connection c read a typing.start or typing.stop frame without channel_id
NoChannelStep(c) ==
    \E t \in {EventTypeTypingStart, EventTypeTypingStop} :
        ReadTypingNoChannel(c, t) /\ event'[c] = t
NoChannelError ==
    NewEvent(EventTypeError, Nil,
             ErrorPayload("INVALID_PAYLOAD", "channel_id required for typing events"))

\* C24: a typing.start or typing.stop without channel scope, read by a
\* connection whose mailbox has room, is rejected: one error envelope is
\* enqueued to the sender, nothing panics, no broadcast is requested, and the
\* membership map and the subscription sets do not change.
C24_TypingWithoutScope ==
    [][\A c \in Conns : (NoChannelStep(c) /\ Room(c)) =>
          /\ enq'[c] = Append(enq[c], NoChannelError)
          /\ ~panicked'
          /\ broadcast' = broadcast
          /\ clients' = clients
          /\ subscribedChannels' = subscribedChannels
    ]_vars

\* C25: once a connection's WritePump has ended (on a failed or timed-out
\* write, a failed ping, or a closed mailbox) its socket is closed, and the
\* connection eventually is out of the membership map with its ReadPump
\* ended too, as long as the control loop keeps running (and the process has
\* not panicked).
C25_WriteErrorCleansUp ==
    /\ [](\A c \in LiveConns : writer[c] = "exited" => connClosed[c])
    /\ \A c \in LiveConns :
          (writer[c] = "exited") ~> ((~InMap(c) /\ reader[c] = "exited") \/ panicked)

\* a connection whose WritePump lost an envelope to a failed write, the only
\* transport failure of the run, is out of the map and both its pumps ended
C25_Witness ==
    \E c \in Conns :
        /\ writer[c] = "exited" /\ reader[c] = "exited"
        /\ ~InMap(c) /\ connClosed[c]
        /\ Len(enq[c]) > Len(written[c]) + Len(send[c])
        /\ \A i \in 1..Len(enq[c]) : enq[c][i].type \notin {EventTypeError, EventTypePong}
        /\ ~panicked

\* connection c was registered and has been removed from the registry
Removed(c) == acceptor[c] = "started" /\ ~InMap(c)

\* C26: the lifecycle is one-way: a connection that has been removed from the
\* registry, by unregister or by an overflow drop, is never in the map again
\* and no step enqueues another envelope to its mailbox.
C26_OneWay ==
    [][\A c \in Conns :
          Removed(c) =>
             /\ Removed(c)'
             /\ enq'[c] = enq[c]
             /\ send'[c] = send[c] \/ (send[c] # <<>> /\ send'[c] = Tail(send[c]))
    ]_vars

\* after a connection's user went offline another user came online, and the
\* removed connection did not get that presence envelope
C26_Witness ==
    \E c \in Conns :
        /\ Removed(c)
        /\ \E i, j \in 1..Len(presence) :
              /\ i < j
              /\ presence[i] = <<userID(c), "offline">>
              /\ presence[j][2] = "online" /\ presence[j][1] # userID(c)
              /\ Occurs(Online(presence[j][1]), enq[c]) = 0
        /\ ~panicked

InvalidPayloadStep(c, eventType) == ReadInvalidPayload(c, eventType) /\ event'[c] = eventType
InvalidPayloadError(eventType) ==
    NewEvent(EventTypeError, Nil,
             ErrorPayload("INVALID_PAYLOAD",
                          IF eventType = EventTypeChannelSubscribe
                             THEN "invalid channel_subscribe payload"
                             ELSE "invalid channel_unsubscribe payload"))

\* the part of C28 about the subscription set itself: a connection is
\* registered with an empty set, gets no envelope of a scope its set lacks, a
\* valid channel.subscribe adds exactly its id and a valid
\* channel.unsubscribe removes exactly its id, and no other set changes
SubscriptionSteps ==
    \A c \in Conns :
        /\ RegisterStep(c) => subscribedChannels'[c] = {}
        /\ BroadcastStep =>
              (Head(broadcast).channelID \notin subscribedChannels[c] => enq'[c] = enq[c])
        /\ \A X \in Scopes :
              /\ ReadSubscribe(c, X) =>
                    subscribedChannels' = [subscribedChannels EXCEPT ![c] = @ \cup {X}]
              /\ ReadUnsubscribe(c, X) =>
                    subscribedChannels' = [subscribedChannels EXCEPT ![c] = @ \ {X}]

\* C28: the subscription set behaves as above, and a subscribe or unsubscribe
\* whose payload does not decode, read by a connection whose mailbox has
\* room, leaves every set unchanged and is answered with one error envelope
\* (nothing panics).
C28_Subscriptions ==
    [][/\ SubscriptionSteps
       /\ \A c \in Conns, t \in {EventTypeChannelSubscribe, EventTypeChannelUnsubscribe} :
             (InvalidPayloadStep(c, t) /\ Room(c)) =>
                /\ subscribedChannels' = subscribedChannels
                /\ enq'[c] = Append(enq[c], InvalidPayloadError(t))
                /\ ~panicked'
    ]_vars

\* the control loop is inside IsSubscribed of c, at the read of the set
Reading(c) == ranging # <<>> /\ ranging[1].pc = "IsSubscribed" /\ ranging[1].at = c

\* the reader loop of c is inside Subscribe / Unsubscribe, at the write
Writing(c) == subscribing[c] # <<>> /\ subscribing[c][1].locked

\* the steps of the control loop and of the reader loop of c that may block:
\* a channel operation of the Hub, a mailbox send; a socket read, a reply,
\* a send to the Hub
HubBlocks ==
    \/ RangeBegin
    \/ RangeSend
    \/ \E c \in Conns : HubRegister(c) \/ HubUnregister(c)
ReaderBlocks(c) ==
    \/ \E ch \in Scopes, t \in {EventTypeChannelSubscribe, EventTypeChannelUnsubscribe} :
          ReadSubscription(c, t, ch)
    \/ \E t \in {EventTypeChannelSubscribe, EventTypeChannelUnsubscribe} :
          ReadInvalidPayload(c, t)
    \/ \E ch \in Scopes : ReadTypingStart(c, ch)
    \/ ReadTypingStop(c)
    \/ \E t \in {EventTypeTypingStart, EventTypeTypingStop} : ReadTypingNoChannel(c, t)
    \/ ReadPing(c) \/ ReadUnknown(c) \/ ReadMalformed(c) \/ ReadClosed(c) \/ ReadError(c)

\* C29: the control loop reads a connection's subscription set only while
\* it holds that connection's read lock, the reader loop writes it only
\* while it holds the write lock, and a read never overlaps a write; the
\* lock is held by nobody but a goroutine inside one of the three methods,
\* and no goroutine that holds it makes a step that may block (a channel
\* operation, a mailbox send, socket I/O, a send to the Hub)
C29_LockDiscipline ==
    /\ [](\A c \in Conns :
            /\ ~(Reading(c) /\ Writing(c))
            /\ Reading(c) => mu[c].readers > 0
            /\ Writing(c) => mu[c].writer
            /\ mu[c].readers > 0 => Reading(c)
            /\ mu[c].writer => Writing(c))
    /\ [][/\ HubBlocks => \A c \in Conns : mu[c].readers = 0
          /\ \A c \in Conns : ReaderBlocks(c) => ~mu[c].writer]_vars

\* the lock has kept the reader loop waiting: the control loop holds the read
\* lock of a connection whose reader loop has called Subscribe / Unsubscribe,
\* on a frame that changes the set the control loop is reading
C29_Witness ==
    \E c \in Conns :
        /\ Reading(c)
        /\ mu[c].readers = 1
        /\ subscribing[c] # <<>>
        /\ ~subscribing[c][1].locked
        /\ subscribing[c][1].channelID = ranging[1].msg.channelID
        /\ (subscribing[c][1].method = EventTypeChannelUnsubscribe)
              = IsSubscribed(c, ranging[1].msg.channelID)

\* the reader loop of c handles a message.send frame: the steps of ReadPump
\* that read an event of that type
MessageSendStep(c) == ReadUnknown(c) /\ event'[c] = EventTypeMessageSend

\* C30: a message.send frame with a channel scope is a recognised kind: the
\* reader loop puts no envelope (so no error envelope) into any mailbox for
\* it, and requests no broadcast
C30_MessageSendRecognised ==
    [][\A c \in Conns :
          MessageSendStep(c) =>
             /\ enq' = enq
             /\ send' = send
             /\ broadcast' = broadcast]_vars

\* the reader loop of c replies: a step of ReadPump that ends in sendPong or
\* sendError
ReplyStep(c) ==
    \/ PingStep(c)
    \/ UnknownStep(c)
    \/ NoChannelStep(c)
    \/ \E t \in {EventTypeChannelSubscribe, EventTypeChannelUnsubscribe} :
          InvalidPayloadStep(c, t)

\* C31: no goroutine sends on a mailbox the Hub has closed: every connection
\* the control loop enqueues to (a member of the membership map) has its
\* mailbox open, and neither a reply of a reader loop nor a send of
\* BroadcastToUser targets a closed mailbox
C31_NoSendOnClosedMailbox ==
    /\ [](\A c \in Conns : InMap(c) => ~sendClosed[c])
    /\ [][\A c \in Conns : (ReplyStep(c) \/ UserSendStep(c)) => ~sendClosed[c]]_vars

\* the presence statuses the Hub has emitted for user uid, in order
Statuses(uid) == SelectSeq(presence, LAMBDA e : e[1] = uid)

\* C32: for every user the presence events emitted by the Hub alternate,
\* starting with "online", and the last one emitted tells whether the user
\* has at least one registered connection (none emitted: no connection)
C32_PresenceAlternates ==
    \A uid \in Users :
        LET s == Statuses(uid)
        IN /\ \A i \in 1..Len(s) : s[i][2] = IF i % 2 = 1 THEN "online" ELSE "offline"
           /\ (Len(s) % 2 = 1) <=> (\E c \in Conns : InMap(c) /\ userID(c) = uid)

\* the Hub emits a presence event for user uid: a step of the register or the
\* unregister case that calls broadcastPresence
PresenceStep(uid, status) ==
    /\ \E c \in Conns : RegisterStep(c) \/ UnregisterStep(c)
    /\ presence' = Append(presence, <<uid, status>>)

\* C33: a presence envelope aimed at a connection whose mailbox is full is
\* dropped for that connection only: the connection stays in the membership
\* map, the set of its user is unchanged, its mailbox stays open and keeps
\* its content, and every other recipient with room gets the envelope
C33_PresenceDropOnFull ==
    [][\A uid \in Users, status \in {"online", "offline"} :
          PresenceStep(uid, status) =>
             \A d \in Conns :
                (InMap(d) /\ userID(d) # uid) =>
                   IF Room(d)
                      THEN enq'[d] = Append(enq[d],
                                            NewEvent(EventTypePresence, Nil,
                                                     PresencePayload(uid, status)))
                      ELSE /\ InMap(d)'
                           /\ clients'[userID(d)] = clients[userID(d)]
                           /\ ~sendClosed'[d] /\ ~doneClosed'[d]
                           /\ send'[d] = send[d]
                           /\ enq'[d] = enq[d]
    ]_vars

\* C33 witness: the first tab of B held A's online and a reply (a full
\* mailbox, never drained) when A went offline: it is still registered and
\* open and has missed the envelope, which B's second tab has received
C33_Witness ==
    /\ Len(enq[1]) = sendBufSize
    /\ enq[1][1] = Online("A")
    /\ Occurs(Offline("A"), enq[1]) = 0
    /\ send[1] = enq[1]
    /\ enq[3] = <<Offline("A")>>
    /\ InMap(1) /\ InMap(3) /\ ~sendClosed[1]

\* how many envelopes a mailbox may have taken in all
Backlog == 0..(sendBufSize + sendBufSize + sendBufSize)

\* C34: while a connection stays registered and no write and no ping fails
\* (its writer loop does not exit), every envelope enqueued into its mailbox
\* is eventually written to its socket: a connection with n envelopes written
\* and more than n enqueued gets one more written
C34_EnqueuedIsWritten ==
    \A c \in LiveConns : \A n \in Backlog :
        (InMap(c) /\ Len(written[c]) = n /\ Len(enq[c]) > n)
           ~> (Len(written[c]) > n \/ ~InMap(c) \/ writer[c] = "exited" \/ panicked)

\* C34 witness: a registered connection with a running writer got more
\* envelopes than its mailbox holds, and all of them were written
C34_Witness ==
    \E c \in LiveConns :
        /\ InMap(c) /\ writer[c] = "run"
        /\ Len(enq[c]) > sendBufSize
        /\ written[c] = enq[c]

\* the reader loop of c handles a channel.subscribe or channel.unsubscribe
\* frame with a valid payload
SubscriptionStep(c) ==
    \E ch \in Scopes :
        \/ ReadSubscribe(c, ch) /\ event'[c] = EventTypeChannelSubscribe
        \/ ReadUnsubscribe(c, ch) /\ event'[c] = EventTypeChannelUnsubscribe

\* C35: subscriptions are per connection: a channel.subscribe or
\* channel.unsubscribe processed on connection c leaves the subscription set
\* of every other connection, the other tabs of c's user included, and the
\* membership map unchanged
C35_PerConnection ==
    [][\A c \in Conns :
          SubscriptionStep(c) =>
             /\ \A d \in Conns \ {c} : subscribedChannels'[d] = subscribedChannels[d]
             /\ clients' = clients]_vars

\* C35 witness: both tabs of B are registered and their subscription sets
\* differ: the first tab has subscribed to a scope the second tab has not,
\* and the second tab has unsubscribed (its set is empty after a frame of
\* that type)
C35_Witness ==
    /\ InMap(1) /\ InMap(3)
    /\ userID(1) = userID(3)
    /\ subscribedChannels[1] # {}
    /\ subscribedChannels[3] = {}
    /\ event[1] = EventTypeChannelSubscribe
    /\ event[3] = EventTypeChannelUnsubscribe

\* the sockets of the client that are connecting or open
Alive == {s \in Sockets : sockets[s].readyState \in {"CONNECTING", "OPEN"}}

\* a step creates a WebSocket object
Creates(s) == sockets[s].readyState # "CONNECTING" /\ sockets'[s].readyState = "CONNECTING"

\* C36: a PulseWebSocket never has more than one socket connecting or open at
\* a time, whatever the order of connect(), disconnect(), the open and close
\* events and the reconnect timer; and once disconnect() has been called, no
\* socket is created unless connect() is called (shouldReconnect is false
\* from disconnect() to the next connect())
C36_OneSocket ==
    /\ [](Cardinality(Alive) <= 1)
    /\ [][(~pulseWS.shouldReconnect /\ ~pulseWS'.shouldReconnect)
             => \A s \in Sockets : ~Creates(s)]_vars

\* C37: after every (re)connection, once the server has read the frames sent
\* on open, the subscription set of the server end of the new connection is
\* the client's subscribedChannels: for every socket that is open, whose
\* onopen has run with no write to the client's set since, and none of whose
\* frames is still unread
C37_ResubscribedOnOpen ==
    \A s \in Sockets :
        (sockets[s].readyState = "OPEN" /\ sockets[s].fresh /\ sockets[s].frames = <<>>)
           => subscribedChannels[s] = pulseWS.subscribedChannels

\* the steps of the client that C38 speaks of: a reconnect is scheduled (a
\* timer is set), a socket opens
Schedules == pulseWS'.pending = pulseWS.pending + 1
Opens == \E s \in Sockets : sockets[s].readyState = "CONNECTING" /\ sockets'[s].readyState = "OPEN"

\* C38: the reconnect delay is 1000 ms until the first reconnect is scheduled,
\* each scheduled reconnect waits the current delay and doubles it, up to
\* 30000 ms, which it never exceeds; the opening of a socket resets it to
\* 1000 ms, nothing else changes it; at most one reconnect timer is pending
C38_ReconnectDelay ==
    /\ []( /\ pulseWS.reconnectDelay >= InitialReconnectDelay
           /\ pulseWS.reconnectDelay <= MAX_RECONNECT_DELAY
           /\ pulseWS.pending <= 1
           /\ (\A s \in Sockets : sockets[s].readyState = "NONE")
                 => pulseWS.reconnectDelay = InitialReconnectDelay )
    /\ [][ /\ Schedules =>
                /\ pulseWS'.reconnectTimer = <<pulseWS.reconnectDelay>>
                /\ pulseWS'.reconnectDelay =
                      IF pulseWS.reconnectDelay + pulseWS.reconnectDelay <= MAX_RECONNECT_DELAY
                         THEN pulseWS.reconnectDelay + pulseWS.reconnectDelay
                         ELSE MAX_RECONNECT_DELAY
           /\ Opens => pulseWS'.reconnectDelay = InitialReconnectDelay
           /\ (~Schedules /\ ~Opens) => pulseWS'.reconnectDelay = pulseWS.reconnectDelay
         ]_vars

\* C38 witness: the delay has reached the cap and a reconnect waiting that
\* long is pending
C38_Witness ==
    /\ pulseWS.reconnectTimer = <<MAX_RECONNECT_DELAY>>
    /\ pulseWS.reconnectDelay = MAX_RECONNECT_DELAY
    /\ pulseWS.pending = 1
====
